---- MODULE Spec2Model ----
(***************************************************************************)
(* A model of the departure pipeline of db_mcp: the TTL cache              *)
(* (infrastructure/cache.py), the upstream gateway                         *)
(* (infrastructure/bahn_client.py, infrastructure/headers.py) and the      *)
(* resolution and mapping service (application/departure_service.py).      *)
(*                                                                         *)
(* Specifications:                                                         *)
(*   SpecCache     the TTLCache object driven directly (get/set/           *)
(*                 invalidate/clear) under a monotonic clock;              *)
(*   SpecOverwrite the same on one key, remembering the set() replaced;    *)
(*   SpecConc      cache operations of two handlers, get() in two halves;  *)
(*   Spec          concurrent service invocations over the one shared      *)
(*                 cache, the one HTTP client and the header counter;      *)
(*   SpecFresh     one handler, the clock passing every freshness window;  *)
(*   SpecBoard     one handler asking for one board again and again;       *)
(*   SpecSearch    two handlers resolving one station name;                *)
(*   SpecTool      tool calls (mcp/tools.py) running down to the gateway;  *)
(*   SpecMap       the pure parts of the service and of the tools          *)
(*                 (station selection, entry mapping, destination filter,  *)
(*                 truncation, cache keys, time parsing, messages)         *)
(*                 applied to inputs drawn from bounded sets.              *)
(*                                                                         *)
(* Conventions: Python None is the record None; an optional argument is a  *)
(* sequence of length 0 (None) or 1; a JSON payload is a record tagged by  *)
(* its field json ("list" or "dict"); a Python str that is only compared   *)
(* or concatenated is a TLA+ string, one that is searched or lower-cased   *)
(* is a sequence of one-character strings.                                 *)
(***************************************************************************)
EXTENDS Integers, Sequences, FiniteSets, TLC

VARIABLES
    store,        \* TTLCache._store: key -> [data, expires_at]
    default_ttl,  \* TTLCache._default_ttl
    now,          \* time.monotonic(), in seconds
    lastSet,      \* history: key -> the last set() of the key not followed by invalidate/clear
    overwritten,  \* history: key -> the set() that the last set() of the key replaced
    lastOp,       \* history: the cache operation just performed and what it returned
                  \* (SpecSearch: the last search answered with an empty list)
    inp,          \* the arguments of the pure function just applied
    out,          \* what it returned
    ua_index,     \* headers._ua_index
    calls,        \* the service invocations in progress, one per request handler
    last,         \* the invocation that ended last, as its handler left it
    ncalls,       \* how many invocations have been started
    firstOk       \* history: key -> when its first successful fetch was cached, the ttl,
                  \* and the mode list of the request whose response was cached last

cacheVars == <<store, default_ttl, now>>

histVars == <<lastSet, overwritten, lastOp>>

mapVars == <<inp, out>>

gwVars == <<ua_index, calls, last, ncalls, firstOk>>

vars == <<store, default_ttl, now, lastSet, overwritten, lastOp, inp, out, ua_index, calls, last,
          ncalls, firstOk>>

----------------------------------------------------------------------------
(* Python values *)

None == [py |-> "None"]

NoArg == <<>>

Some(x) == <<x>>

----------------------------------------------------------------------------
(* Bounds *)

\* last instant of the monotonic clock explored when the cache is driven directly
MaxClock == 4

----------------------------------------------------------------------------
(* infrastructure/cache.py *)

EmptyStore == <<>>

\* dict.pop(key, None) / del dict[key]
DictRemove(d, k) == [x \in (DOMAIN d) \ {k} |-> d[x]]

\* dict[key] = v
DictPut(d, k, v) == [x \in (DOMAIN d) \cup {k} |-> IF x = k THEN v ELSE d[x]]

\* TTLCache.get, the test `time.monotonic() > expires_at`
IsExpired(entry, t) == t > entry.expires_at

\* TTLCache.get: the value returned
CacheGetValue(st, k, t) ==
    IF k \notin DOMAIN st THEN None
    ELSE IF IsExpired(st[k], t) THEN None
    ELSE st[k].data

\* TTLCache.get: the store it leaves (an expired entry is deleted)
CacheGetStoreMutSweep(st, k, t) ==
    [x \in {y \in DOMAIN st : ~IsExpired(st[y], t)} |-> st[x]]

CacheGetStore(st, k, t) ==
    IF k \in DOMAIN st /\ IsExpired(st[k], t) THEN DictRemove(st, k) ELSE st

\* TTLCache.set, `ttl if ttl is not None else self._default_ttl`
EffectiveTtlMutDefault(ttl, dflt) == dflt

EffectiveTtl(ttl, dflt) == IF ttl # NoArg THEN ttl[1] ELSE dflt

\* TTLCache.set: the store it leaves
CacheSetStoreMutKeepExpiry(st, k, v, ttl, dflt, t) ==
    DictPut(st, k, [data |-> v,
                    expires_at |-> IF k \in DOMAIN st THEN st[k].expires_at
                                   ELSE t + EffectiveTtl(ttl, dflt)])

CacheSetStore(st, k, v, ttl, dflt, t) ==
    DictPut(st, k, [data |-> v, expires_at |-> t + EffectiveTtl(ttl, dflt)])

\* TTLCache.invalidate
CacheInvalidateStore(st, k) == DictRemove(st, k)

\* TTLCache.clear
CacheClearStore(st) == EmptyStore

----------------------------------------------------------------------------
(* SpecCache: the cache driven directly *)

CacheKeys == {"k1", "k2"}

CacheValues == {[json |-> "dict", v |-> 1], [json |-> "dict", v |-> 2]}

CacheTtls == {NoArg, Some(0), Some(1), Some(2)}

DefaultTtls == {1, 90}

NoOp == [op |-> "none"]

NoCall == [fn |-> "none"]

\* the request handlers that run concurrently on the event loop
Procs == {"h1", "h2"}

NoArgs ==
    [station_name |-> "", dt |-> NoArg, modes |-> NoArg, destination_filter |-> NoArg,
     max_results |-> 20, journey_id |-> ""]

\* a handler: pc is "idle", "wait" (suspended in `await self._http.get`) or, as the
\* invocation ends, "done";
\* gw lists the gateway calls the invocation has made, the last one the current one
IdleCall ==
    [pc |-> "idle", op |-> "none", args |-> NoArgs, location |-> None, gw |-> <<>>,
     result |-> None]

InitCache ==
    /\ store = EmptyStore
    /\ default_ttl \in DefaultTtls
    /\ now = 0
    /\ lastSet = <<>>
    /\ overwritten = <<>>
    /\ lastOp = NoOp
    /\ inp = NoCall
    /\ out = NoOp
    /\ ua_index = 0
    /\ calls = [p \in Procs |-> IdleCall]
    /\ last = IdleCall
    /\ ncalls = 0
    /\ firstOk = <<>>

Get(k) ==
    /\ store' = CacheGetStore(store, k, now)
    /\ lastOp' = [op |-> "get", key |-> k, at |-> now,
                  ret |-> CacheGetValue(store, k, now)]
    /\ UNCHANGED <<default_ttl, now, lastSet, overwritten, mapVars, gwVars>>

Set(k, v, ttl) ==
    /\ store' = CacheSetStore(store, k, v, ttl, default_ttl, now)
    /\ lastSet' = DictPut(lastSet, k,
                          [data |-> v, at |-> now,
                           T |-> IF ttl = NoArg THEN default_ttl ELSE ttl[1]])
    /\ lastOp' = [op |-> "set", key |-> k, at |-> now, ret |-> None]
    /\ UNCHANGED <<default_ttl, now, overwritten, mapVars, gwVars>>

\* set(k, v, ttl), keeping also the set() it replaces
SetOver(k, v, ttl) ==
    /\ store' = CacheSetStore(store, k, v, ttl, default_ttl, now)
    /\ lastSet' = DictPut(lastSet, k,
                          [data |-> v, at |-> now,
                           T |-> IF ttl = NoArg THEN default_ttl ELSE ttl[1]])
    /\ overwritten' = IF k \in DOMAIN lastSet THEN DictPut(overwritten, k, lastSet[k])
                      ELSE overwritten
    /\ lastOp' = [op |-> "set", key |-> k, at |-> now, ret |-> None]
    /\ UNCHANGED <<default_ttl, now, mapVars, gwVars>>

Invalidate(k) ==
    /\ store' = CacheInvalidateStore(store, k)
    /\ lastSet' = DictRemove(lastSet, k)
    /\ overwritten' = DictRemove(overwritten, k)
    /\ lastOp' = [op |-> "invalidate", key |-> k, at |-> now, ret |-> None]
    /\ UNCHANGED <<default_ttl, now, mapVars, gwVars>>

Clear ==
    /\ store' = CacheClearStore(store)
    /\ lastSet' = <<>>
    /\ overwritten' = <<>>
    /\ lastOp' = [op |-> "clear", key |-> "", at |-> now, ret |-> None]
    /\ UNCHANGED <<default_ttl, now, mapVars, gwVars>>

\* the monotonic clock advances between calls
ClockTick ==
    /\ now < MaxClock
    /\ now' = now + 1
    /\ lastOp' = NoOp
    /\ UNCHANGED <<store, default_ttl, lastSet, overwritten, mapVars, gwVars>>

NextCache ==
    \/ \E k \in CacheKeys : Get(k)
    \/ \E k \in CacheKeys, v \in CacheValues, ttl \in CacheTtls : Set(k, v, ttl)
    \/ \E k \in CacheKeys : Invalidate(k)
    \/ Clear
    \/ ClockTick

SpecCache == InitCache /\ [][NextCache]_vars

\* SpecOverwrite: the cache driven directly, sets of one key one upon the other
OverwriteKeys == {"k1"}

NextOverwrite ==
    \/ \E k \in OverwriteKeys : Get(k)
    \/ \E k \in OverwriteKeys, v \in CacheValues, ttl \in CacheTtls : SetOver(k, v, ttl)
    \/ \E k \in OverwriteKeys : Invalidate(k)
    \/ ClockTick

SpecOverwrite == InitCache /\ [][NextOverwrite]_vars

\* SpecConc: the one cache used by the request handlers of the event loop, get taken
\* statement by statement. A handler in the middle of get keeps the entry it read in
\* its frame: [pc |-> "get", key, entry].

\* `del self._store[key]` for a key that is not in the dict
KeyError == [raised |-> "KeyError"]

\* TTLCache.get, `entry = self._store.get(key)`
CacheGetEntry(st, k) == IF k \in DOMAIN st THEN st[k] ELSE None

\* TTLCache.get from `if entry is None` on: the value returned (or the error raised)
CacheGetFinishValue(entry, st, k, t) ==
    IF entry = None THEN None
    ELSE IF IsExpired(entry, t)
         THEN IF k \in DOMAIN st THEN None ELSE KeyError
         ELSE entry.data

\* TTLCache.get from `if entry is None` on: the store it leaves
CacheGetFinishStore(entry, st, k, t) ==
    IF entry # None /\ IsExpired(entry, t) /\ k \in DOMAIN st THEN DictRemove(st, k)
    ELSE st

\* TTLCache's methods are plain functions without an await: the event loop, which
\* switches handlers only at an await, runs a call of get to its return before any
\* other handler runs
RunnableMutPreempt(p) == TRUE

Runnable(p) == \A q \in Procs \ {p} : calls[q].pc # "get"

ConcGetEntry(p, k) ==
    /\ Runnable(p)
    /\ calls[p].pc = "idle"
    /\ calls' = [calls EXCEPT ![p] = [pc |-> "get", key |-> k,
                                      entry |-> CacheGetEntry(store, k)]]
    /\ lastOp' = NoOp
    /\ UNCHANGED <<cacheVars, lastSet, overwritten, mapVars, ua_index, last, ncalls,
                   firstOk>>

ConcGetReturn(p) ==
    /\ Runnable(p)
    /\ calls[p].pc = "get"
    /\ store' = CacheGetFinishStore(calls[p].entry, store, calls[p].key, now)
    /\ lastOp' = [op |-> "get", key |-> calls[p].key, at |-> now,
                  ret |-> CacheGetFinishValue(calls[p].entry, store, calls[p].key, now)]
    /\ calls' = [calls EXCEPT ![p] = IdleCall]
    /\ UNCHANGED <<default_ttl, now, lastSet, overwritten, mapVars, ua_index, last, ncalls,
                   firstOk>>

ConcSet(p, k, v, ttl) == Runnable(p) /\ calls[p].pc = "idle" /\ SetOver(k, v, ttl)

ConcInvalidate(p, k) == Runnable(p) /\ calls[p].pc = "idle" /\ Invalidate(k)

ConcClear(p) == Runnable(p) /\ calls[p].pc = "idle" /\ Clear

ConcTtls == {NoArg, Some(0), Some(2)}

NextConc ==
    \/ \E p \in Procs, k \in OverwriteKeys : ConcGetEntry(p, k)
    \/ \E p \in Procs : ConcGetReturn(p)
    \/ \E p \in Procs, k \in OverwriteKeys, v \in CacheValues, ttl \in ConcTtls :
           ConcSet(p, k, v, ttl)
    \/ \E p \in Procs, k \in OverwriteKeys : ConcInvalidate(p, k)
    \/ \E p \in Procs : ConcClear(p)
    \/ ClockTick

SpecConc == InitCache /\ [][NextConc]_vars

----------------------------------------------------------------------------
(* Python helpers *)

\* dict.get(key, default) on a JSON object (a record whose fields are the keys present)
DictGet(d, k, dflt) == IF k \in DOMAIN d THEN d[k] ELSE dflt

\* seq[:n]: the first n elements, and for a negative n all but the last -n
PySliceTo(s, n) ==
    IF n >= 0 THEN SubSeq(s, 1, IF n < Len(s) THEN n ELSE Len(s))
    ELSE SubSeq(s, 1, IF Len(s) + n > 0 THEN Len(s) + n ELSE 0)

\* seq[1:]
PySliceFrom1MutKeep(s) == s

PySliceFrom1(s) == SubSeq(s, 2, Len(s))

\* str.lower() on the characters of the model's alphabet
LowerChar(c) ==
    CASE c = "A" -> "a"
      [] c = "B" -> "b"
      [] c = "C" -> "c"
      [] OTHER -> c

Lower(s) == [i \in 1..Len(s) |-> LowerChar(s[i])]

\* `sub in s` on strings
StrIn(sub, s) ==
    \E i \in 0..(Len(s) - Len(sub)) : SubSeq(s, i + 1, i + Len(sub)) = sub

\* int(x / 60) for an integer number of seconds x: truncation toward zero
TruncDiv(a, b) == IF a >= 0 THEN a \div b ELSE -((-a) \div b)

PyMax(a, b) == IF a >= b THEN a ELSE b

----------------------------------------------------------------------------
(* infrastructure/time_utils.py *)

(* A timestamp string of the upstream API is modelled by its form and the   *)
(* numbers it spells: [text |-> "naive", wall |-> w] spells the wall-clock   *)
(* second w with no offset, [text |-> "offset", wall |-> w, off |-> o] the   *)
(* same with a numeric UTC offset of o seconds, [text |-> "zulu", wall |-> w]*)
(* the same with the UTC designator "Z", [text |-> "date", wall |-> w] a     *)
(* date with no time, w its midnight; "empty", "blank" and "garbage" are    *)
(* the strings that spell no date, "extreme" one that spells a date and an   *)
(* offset at the edge of the years 1..9999. Seconds are counted from         *)
(* 2026-02-24T00:00:00. A datetime is [wall, off]: its wall-clock second and *)
(* its UTC offset; its instant is wall - off. Every datetime of the program  *)
(* carries the one tzinfo object BERLIN_TZ.                                  *)

EmptyTimeStr == [text |-> "empty"]

\* the UTC offset of Europe/Berlin in winter (CET)
BerlinOffset == 3600

\* the UTC offset of Europe/Berlin in summer (CEST)
BerlinSummerOffset == 7200

\* the instants at which Europe/Berlin changes its offset in 2026:
\* 2026-03-29T01:00Z (day 33) and 2026-10-25T01:00Z (day 243)
DstStartUtc == 33 * 86400 + 3600

DstEndUtc == 243 * 86400 + 3600

\* ZoneInfo("Europe/Berlin").utcoffset at an instant
BerlinOffsetAt(utc) ==
    IF DstStartUtc <= utc /\ utc < DstEndUtc THEN BerlinSummerOffset ELSE BerlinOffset

\* ZoneInfo("Europe/Berlin").utcoffset of a wall-clock second with fold = 0: a time
\* in the spring gap takes the offset before the change, a time that occurs twice in
\* autumn is its first occurrence
BerlinOffsetOfWall(wall) ==
    IF DstStartUtc + BerlinSummerOffset <= wall /\ wall < DstEndUtc + BerlinSummerOffset
    THEN BerlinSummerOffset
    ELSE BerlinOffset

ValueError == [ok |-> FALSE, err |-> "ValueError"]

\* `dt.astimezone(BERLIN_TZ)` for an instant whose Berlin time lies outside
\* datetime's years 1..9999: "date value out of range"
OverflowError == [ok |-> FALSE, err |-> "OverflowError"]

Ok(v) == [ok |-> TRUE, val |-> v]

Instant(dt) == dt.wall - dt.off

\* datetime.astimezone(BERLIN_TZ)
AsBerlin(utc) == [wall |-> utc + BerlinOffsetAt(utc), off |-> BerlinOffsetAt(utc)]

\* datetime.replace(tzinfo=BERLIN_TZ)
ReplaceBerlin(wall) == [wall |-> wall, off |-> BerlinOffsetOfWall(wall)]

\* aware1 - aware2 in seconds: both carry BERLIN_TZ, and Python subtracts datetimes
\* of one tzinfo object by their wall-clock fields
DatetimeSub(a, b) == a.wall - b.wall

\* parse_bahn_datetime before Python 3.11, where fromisoformat rejects "Z"
ParseBahnDatetimePy310(s) ==
    CASE s.text \in {"empty", "blank"} -> ValueError
      [] s.text = "offset" -> Ok(AsBerlin(s.wall - s.off))
      [] s.text = "extreme" -> OverflowError
      [] s.text \in {"naive", "date"} -> Ok(ReplaceBerlin(s.wall))
      [] OTHER -> ValueError

\* parse_bahn_datetime; fromisoformat takes a date with no time as its midnight; a
\* string ending in "Z" has no "+" and two "-", so it takes the naive branch, where
\* fromisoformat reads it as UTC and replace() overrides that
ParseBahnDatetime(s) ==
    CASE s.text \in {"empty", "blank"} -> ValueError
      [] s.text = "offset" -> Ok(AsBerlin(s.wall - s.off))
      [] s.text = "extreme" -> OverflowError
      [] s.text \in {"naive", "date", "zulu"} -> Ok(ReplaceBerlin(s.wall))
      [] OTHER -> ValueError

----------------------------------------------------------------------------
(* domain/services.py *)

\* delay_minutes
DelayMinutes(sched, rt) ==
    IF rt = None THEN 0
    ELSE PyMax(0, TruncDiv(DatetimeSub(rt, sched), 60))

\* is_cancelled
IsCancelledMutFirst(messages) ==
    /\ Len(messages) > 0
    /\ "type" \in DOMAIN messages[1] /\ messages[1].type = "HALT_AUSFALL"

IsCancelled(messages) ==
    \E i \in 1..Len(messages) :
        "type" \in DOMAIN messages[i] /\ messages[i].type = "HALT_AUSFALL"

\* effective_time
EffectiveTime(sched, rt) == IF rt # None THEN rt ELSE sched

----------------------------------------------------------------------------
(* application/departure_service.py: mapping *)

\* The JSON value of an identifier field: a number n, a string that spells the
\* integer n in decimal, a string that spells no integer, or null (None)
JsonNumber(n) == [json |-> "number", val |-> n]

JsonNumeral(n) == [json |-> "string", val |-> n]

JsonWord == [json |-> "string"]

TypeError == [ok |-> FALSE, err |-> "TypeError"]

\* int(x): the number itself, the integer a string spells, ValueError for a string
\* that spells none and TypeError for None
PyInt(x) ==
    IF x = None THEN TypeError
    ELSE IF "val" \in DOMAIN x THEN Ok(x.val)
    ELSE ValueError

\* DepartureService._map_location: Ok(Location), or the error int() raises
MapLocation(raw) ==
    LET eva == PyInt(DictGet(raw, "evaNumber", DictGet(raw, "extId", JsonNumber(0)))) IN
    IF ~eva.ok THEN eva
    ELSE Ok([eva |-> eva.val,
             hafas_id |-> DictGet(raw, "id", ""),
             name |-> DictGet(raw, "name", ""),
             lat |-> DictGet(raw, "lat", 0),
             lon |-> DictGet(raw, "lon", 0),
             location_type |-> DictGet(raw, "type", "ST"),
             transport_modes |-> DictGet(raw, "products", <<>>)])

\* DepartureService.resolve_station, the selection among non-empty results
FirstStIndex(results) ==
    LET st == {i \in 1..Len(results) :
                  "type" \in DOMAIN results[i] /\ results[i].type = "ST"}
    IN  IF st = {} THEN 0 ELSE CHOOSE i \in st : \A j \in st : i <= j

SelectStationMutFirst(results) == MapLocation(results[1])

SelectStation(results) ==
    IF FirstStIndex(results) # 0
    THEN MapLocation(results[FirstStIndex(results)])
    ELSE MapLocation(results[1])

\* DepartureService._map_departure: the via stations, `ueber[1:]`
ViaStations(raw) == PySliceFrom1(DictGet(raw, "ueber", <<>>))

\* DepartureService._map_departure: the real-time departure
RtDeparture(raw) ==
    LET ez == DictGet(raw, "ezZeit", EmptyTimeStr)
        parsed == ParseBahnDatetime(ez)
    IN  IF ez.text = "empty" THEN Ok(None)
        ELSE IF parsed.ok THEN parsed
        ELSE IF parsed = ValueError THEN Ok(None)
        ELSE parsed

MapMessage(m) == [type |-> DictGet(m, "type", ""), text |-> DictGet(m, "text", "")]

\* DepartureService._map_departure: Ok(Departure), or the error of the scheduled
\* time's parse, or the error of the real-time parse that is no ValueError
MapDeparture(raw) ==
    LET vm == DictGet(raw, "verkehrmittel", <<>>)
        lang == DictGet(vm, "langText", "")
        mittel == DictGet(vm, "mittelText", "")
        sched == ParseBahnDatetime(DictGet(raw, "zeit", EmptyTimeStr))
        rt == RtDeparture(raw)
        meldungen == DictGet(raw, "meldungen", <<>>)
    IN  IF ~sched.ok THEN sched
        ELSE IF ~rt.ok THEN rt
        ELSE Ok([journey_id |-> DictGet(raw, "journeyId", ""),
                 train_name |-> IF lang # "" THEN lang
                                ELSE IF mittel # "" THEN mittel
                                ELSE DictGet(vm, "kurzText", ""),
                 train_type |-> DictGet(vm, "kurzText", ""),
                 destination |-> DictGet(raw, "terminus", <<>>),
                 via_stations |-> ViaStations(raw),
                 platform |-> DictGet(raw, "gleis", ""),
                 rt_platform |-> DictGet(raw, "ezGleis", ""),
                 scheduled_departure |-> sched.val,
                 rt_departure |-> rt.val,
                 effective_departure |-> EffectiveTime(sched.val, rt.val),
                 delay_minutes |-> DelayMinutes(sched.val, rt.val),
                 is_cancelled |-> IsCancelled(meldungen),
                 messages |-> [i \in 1..Len(meldungen) |-> MapMessage(meldungen[i])]])

\* DepartureService.get_departures: `[self._map_departure(entry) for entry in entries]`
MapEntriesMutSkip(entries) ==
    LET Parses(e) == MapDeparture(e).ok
        kept == SelectSeq(entries, Parses)
    IN  Ok([i \in 1..Len(kept) |-> MapDeparture(kept[i]).val])

MapEntries(entries) ==
    LET failing == {i \in 1..Len(entries) : ~MapDeparture(entries[i]).ok} IN
    IF failing # {}
    THEN MapDeparture(entries[CHOOSE i \in failing : \A j \in failing : i <= j])
    ELSE Ok([i \in 1..Len(entries) |-> MapDeparture(entries[i]).val])

\* DepartureService.get_departures: the test of the destination filter on one departure
MatchesDestinationMutDestOnly(d, dest_lower) == StrIn(dest_lower, Lower(d.destination))

MatchesDestination(d, dest_lower) ==
    \/ StrIn(dest_lower, Lower(d.destination))
    \/ \E i \in 1..Len(d.via_stations) : StrIn(dest_lower, Lower(d.via_stations[i]))

\* DepartureService.get_departures: `if destination_filter:` and the list comprehension
ApplyDestinationFilter(departures, destination_filter) ==
    IF destination_filter # NoArg /\ destination_filter[1] # <<>>
    THEN LET dest_lower == Lower(destination_filter[1])
             Keep(d) == MatchesDestination(d, dest_lower)
         IN  SelectSeq(departures, Keep)
    ELSE departures

\* DepartureService.get_departures from the entries on: map, filter, truncate
DeparturesOf(entries, destination_filter, max_results) ==
    LET mapped == MapEntries(entries) IN
    IF ~mapped.ok THEN mapped
    ELSE Ok(PySliceTo(ApplyDestinationFilter(mapped.val, destination_filter),
                      max_results))

----------------------------------------------------------------------------
(* infrastructure/time_utils.py: formatting *)

Pad2(n) == IF n < 10 THEN "0" \o ToString(n) ELSE ToString(n)

\* the calendar day of a wall-clock second; day 0 of the model is 2026-02-24
DayStr(d) == "2026-02-" \o Pad2(24 + d)

\* format_datum: strftime("%Y-%m-%d")
FormatDatum(dt) == DayStr(dt.wall \div 86400)

\* format_zeit: strftime("%H:%M:%S")
FormatZeit(dt) ==
    LET sod == dt.wall % 86400 IN
    Pad2(sod \div 3600) \o ":" \o Pad2((sod % 3600) \div 60) \o ":" \o Pad2(sod % 60)

\* now_berlin: the wall clock reads 14:00:00 on day 0 when the monotonic clock reads 0
NowBerlin(t) == [wall |-> 14 * 3600 + t, off |-> BerlinOffset]

----------------------------------------------------------------------------
(* infrastructure/headers.py *)

NumUserAgents == 3

\* make_headers: the pool entry used, `_USER_AGENTS[_ua_index % len(_USER_AGENTS)]`
UserAgentOf(idx) == idx % NumUserAgents

\* make_headers called with _ua_index = idx: the counter value it read, the pool
\* entry of the User-Agent header, and the counter it leaves (`_ua_index += 1`)
MakeHeadersMutNoIncrement(idx) == [read |-> idx, ua |-> UserAgentOf(idx), index |-> idx]

MakeHeaders(idx) == [read |-> idx, ua |-> UserAgentOf(idx), index |-> idx + 1]

----------------------------------------------------------------------------
(* infrastructure/bahn_client.py: cache keys and status check *)

BASE_URL == "https://www.bahn.de/web/api"

TTL_STATIONS == 300

TTL_DEPARTURES == 90

TTL_JOURNEY == 30

OrteUrl == BASE_URL \o "/reiseloesung/orte"

AbfahrtenUrl == BASE_URL \o "/reiseloesung/abfahrten"

FahrtUrl == BASE_URL \o "/reiseloesung/fahrt"

\* str.join
RECURSIVE Join(_, _)
Join(parts, sep) ==
    IF Len(parts) = 0 THEN ""
    ELSE IF Len(parts) = 1 THEN parts[1]
    ELSE parts[1] \o sep \o Join(Tail(parts), sep)

\* the query parameter names of the three endpoints in str order
ParamOrder ==
    <<"datum", "journeyId", "limit", "maxVias", "mitVias", "ortExtId", "ortId", "poly",
      "suchbegriff", "typ", "zeit">>

\* the TransportMode values in str order
ModeOrder ==
    <<"ANRUFPFLICHTIG", "BUS", "EC_IC", "ICE", "IR", "REGIONAL", "SBAHN", "SCHIFF",
      "TRAM", "UBAHN">>

\* sorted(params.items()): the (name, value) pairs by name
RECURSIVE SortedItemsBy(_, _)
SortedItemsBy(params, order) ==
    IF order = <<>> THEN <<>>
    ELSE LET IsHead(kv) == kv[1] = Head(order)
         IN  SelectSeq(params, IsHead) \o SortedItemsBy(params, Tail(order))

SortedItems(params) == SortedItemsBy(params, ParamOrder)

\* sorted(modes)
RECURSIVE SortedBy(_, _)
SortedBy(strs, order) ==
    IF order = <<>> THEN <<>>
    ELSE LET IsHead(x) == x = Head(order)
         IN  SelectSeq(strs, IsHead) \o SortedBy(strs, Tail(order))

SortedModes(modes) == SortedBy(modes, ModeOrder)

\* "&".join(f"{k}={v}" for k, v in sorted(params.items()))
QueryString(params) ==
    LET items == SortedItems(params) IN
    Join([i \in 1..Len(items) |-> items[i][1] \o "=" \o items[i][2]], "&")

\* BahnClient._get: cache_key
GetCacheKey(url, params) == url \o "?" \o QueryString(params)

\* BahnClient.search_stations: params
SearchParams(query, limit) ==
    <<<<"suchbegriff", query>>, <<"typ", "ALL">>, <<"limit", ToString(limit)>>>>

\* BahnClient.get_journey: params
JourneyParams(journey_id) == <<<<"journeyId", journey_id>>, <<"poly", "false">>>>

\* BahnClient.get_departures: base_params
DeparturesParams(eva, hafas_id, datum, zeit) ==
    <<<<"datum", datum>>, <<"zeit", zeit>>, <<"ortExtId", ToString(eva)>>,
      <<"ortId", hafas_id>>, <<"mitVias", "true">>, <<"maxVias", "5">>>>

\* BahnClient.get_departures: modes_key
ModesKey(modes) == IF modes # <<>> THEN Join(SortedModes(modes), ",") ELSE ""

\* BahnClient.get_departures: cache_key
DeparturesCacheKeyMutNoModes(eva, hafas_id, datum, zeit, modes) ==
    AbfahrtenUrl \o "?" \o QueryString(DeparturesParams(eva, hafas_id, datum, zeit))

DeparturesCacheKey(eva, hafas_id, datum, zeit, modes) ==
    AbfahrtenUrl \o "?" \o QueryString(DeparturesParams(eva, hafas_id, datum, zeit))
        \o "&modes=" \o ModesKey(modes)

\* the test of a cache lookup's result, `if cached is not None`
Falsy(v) ==
    \/ v = None
    \/ (v.json = "list" /\ v.items = <<>>)
    \/ (v.json = "dict" /\ DOMAIN v = {"json"})

IsCachedMutTruthy(cached) == ~Falsy(cached)

IsCached(cached) == cached # None

\* exceptions
ApiError(status_code, message) ==
    [kind |-> "ApiError", status_code |-> status_code,
     message |-> IF message # "" THEN message
                 ELSE "Upstream API error (" \o ToString(status_code) \o ")"]

StationNotFoundError(message) ==
    [kind |-> "StationNotFoundError", status_code |-> 0, message |-> message]

TimeoutException == [kind |-> "TimeoutException", status_code |-> 0, message |-> ""]

JsonDecodeError == [kind |-> "ValueError", status_code |-> 0, message |-> "JSONDecodeError"]

ParseValueError == [kind |-> "ValueError", status_code |-> 0, message |-> "datetime"]

\* the ValueError or TypeError that int() raises in _map_location
IntConversionError(err) == [kind |-> err, status_code |-> 0, message |-> "int()"]

\* BahnClient._raise_for_status: the exception raised, or None
RaiseForStatus(status_code, url) ==
    IF status_code = 404
    THEN ApiError(404, "Resource not found (404): " \o url)
    ELSE IF status_code >= 400 THEN ApiError(status_code, "")
    ELSE None

\* BahnClient.search_stations: the list returned for a payload
StationItems(result) ==
    IF result.json = "list" THEN result.items
    ELSE DictGet(result, "items", DictGet(result, "orte", <<>>))

----------------------------------------------------------------------------
(* The gateway and the service as steps of a handler. Code between two awaits *)
(* that suspend runs without interleaving on the event loop, so a step runs    *)
(* from the invocation (or from the arrival of a response) to the next         *)
(* upstream request or to the end of the invocation. M is the state a step     *)
(* threads through: [store, ua, first, c] with c the handler's record.         *)

LastGw(M) == M.c.gw[Len(M.c.gw)]

OkResult(v) == [kind |-> "ok", value |-> v, exc |-> None]

ErrResult(e) == [kind |-> "error", value |-> None, exc |-> e]

\* the invocation ends, returning or raising
Finish(M, r) == [M EXCEPT !.c.pc = "done", !.c.result = r]

\* BahnClient._get / BahnClient.get_departures, `if cached is not None: return cached`:
\* the call g ends before make_headers() is reached; st1 is the store as the lookup
\* left it
ReturnCachedMutHeaders(M, st1, g) ==
    [M EXCEPT !.store = st1, !.ua = MakeHeaders(@).index, !.c.gw = Append(@, g)]

ReturnCached(M, st1, g) == [M EXCEPT !.store = st1, !.c.gw = Append(@, g)]

\* BahnClient._get / BahnClient.get_departures up to the await: the cache lookup and,
\* on a miss, make_headers() and the request. live, held and inWindow record what the
\* cache held for the key when it was consulted, heldFor the mode list of the request
\* whose response it held; idx is the value of _ua_index that make_headers read and ua
\* the pool entry it used (-1 when no header set was made); status is the status of
\* the response received (0 before it), wrote whether the call reached cache.set.
BeginGateway(M, ep, url, key, ttl, reqModes) ==
    LET cached == CacheGetValue(M.store, key, now)
        st1 == CacheGetStore(M.store, key, now)
        g == [ep |-> ep, url |-> url, key |-> key, ttl |-> ttl, modes |-> reqModes,
              live |-> key \in DOMAIN M.store /\ now <= M.store[key].expires_at,
              held |-> IF key \in DOMAIN M.store THEN M.store[key].data ELSE None,
              inWindow |-> key \in DOMAIN M.first
                           /\ now <= M.first[key].at + M.first[key].ttl,
              heldFor |-> IF key \in DOMAIN M.first THEN M.first[key].modes ELSE <<>>,
              sent |-> 0, ua |-> -1, idx |-> -1, status |-> 0, wrote |-> FALSE,
              state |-> "ok", ret |-> cached, err |-> None]
        headers == MakeHeaders(M.ua)
    IN  IF IsCached(cached)
        THEN ReturnCached(M, st1, g)
        ELSE [M EXCEPT !.store = st1,
                       !.ua = headers.index,
                       !.c.gw = Append(@, [g EXCEPT !.sent = 1, !.state = "wait",
                                                    !.ua = headers.ua,
                                                    !.idx = headers.read]),
                       !.c.pc = "wait"]

\* an exception of the gateway call propagates through the service to its caller
GatewayRaiseMutRetry(M, exc) ==
    IF LastGw(M).sent < 2
    THEN [M EXCEPT !.ua = MakeHeaders(M.ua).index,
                   !.c.gw[Len(M.c.gw)].sent = @ + 1,
                   !.c.gw[Len(M.c.gw)].ua = MakeHeaders(M.ua).ua,
                   !.c.gw[Len(M.c.gw)].idx = MakeHeaders(M.ua).read]
    ELSE Finish([M EXCEPT !.c.gw[Len(M.c.gw)].state = "raised",
                          !.c.gw[Len(M.c.gw)].err = exc], ErrResult(exc))

GatewayRaise(M, exc) ==
    Finish([M EXCEPT !.c.gw[Len(M.c.gw)].state = "raised",
                     !.c.gw[Len(M.c.gw)].err = exc], ErrResult(exc))

\* DepartureService.get_departures after the board payload
AfterBoardMutUncache(M, raw_data) ==
    LET d == DeparturesOf(DictGet(raw_data, "entries", <<>>),
                          M.c.args.destination_filter, M.c.args.max_results)
    IN  IF d.ok
        THEN Finish(M, OkResult([station |-> M.c.location, departures |-> d.val]))
        ELSE Finish([M EXCEPT !.store = DictRemove(@, LastGw(M).key)],
                    ErrResult([ParseValueError EXCEPT !.kind = d.err]))

AfterBoard(M, raw_data) ==
    LET d == DeparturesOf(DictGet(raw_data, "entries", <<>>),
                          M.c.args.destination_filter, M.c.args.max_results)
    IN  IF d.ok
        THEN Finish(M, OkResult([station |-> M.c.location, departures |-> d.val]))
        ELSE Finish(M, ErrResult([ParseValueError EXCEPT !.kind = d.err]))

\* DepartureService.get_departures from the resolved station to the board request
BoardBegin(M) ==
    LET a == M.c.args
        effective_dt == IF a.dt # NoArg THEN a.dt[1] ELSE NowBerlin(now)
        mode_strings == IF a.modes # NoArg THEN a.modes[1] ELSE <<>>
        key == DeparturesCacheKey(M.c.location.eva, M.c.location.hafas_id,
                                  FormatDatum(effective_dt), FormatZeit(effective_dt),
                                  mode_strings)
        M1 == BeginGateway(M, "abfahrten", AbfahrtenUrl, key, Some(TTL_DEPARTURES),
                           mode_strings)
    IN  IF LastGw(M1).state = "ok" THEN AfterBoard(M1, LastGw(M1).ret) ELSE M1

AfterSearchMutNoRaise(M, result) ==
    LET results == StationItems(result)
        M1 == [M EXCEPT !.c.location = IF Len(results) = 0
                                       THEN MapLocation([name |-> M.c.args.station_name]).val
                                       ELSE SelectStation(results).val]
    IN  IF M.c.op = "resolve_station"
        THEN Finish(M1, OkResult(M1.c.location))
        ELSE BoardBegin(M1)

\* DepartureService.resolve_station after search_stations, and what follows it
AfterSearch(M, result) ==
    LET results == StationItems(result) IN
    IF Len(results) = 0
    THEN Finish(M, ErrResult(StationNotFoundError(
                                 "Station not found: " \o M.c.args.station_name)))
    ELSE LET station == SelectStation(results) IN
         IF ~station.ok THEN Finish(M, ErrResult(IntConversionError(station.err)))
         ELSE LET M1 == [M EXCEPT !.c.location = station.val] IN
              IF M.c.op = "resolve_station"
              THEN Finish(M1, OkResult(M1.c.location))
              ELSE BoardBegin(M1)

\* DepartureService.resolve_station: search_stations(name, limit=10)
SearchBegin(M) ==
    LET key == GetCacheKey(OrteUrl, SearchParams(M.c.args.station_name, 10))
        M1 == BeginGateway(M, "orte", OrteUrl, key, Some(TTL_STATIONS), <<>>)
    IN  IF LastGw(M1).state = "ok" THEN AfterSearch(M1, LastGw(M1).ret) ELSE M1

\* DepartureService.get_journey: one stop
MapStop(h) ==
    LET meldungen == DictGet(h, "priorisierteMeldungen", <<>>)
                         \o DictGet(h, "risMeldungen", <<>>)
        ezAb == DictGet(h, "ezAbfahrtsZeitpunkt", EmptyTimeStr)
        ezAn == DictGet(h, "ezAnkunftsZeitpunkt", EmptyTimeStr)
    IN  [name |-> DictGet(h, "name", ""),
         eva |-> IF "evaNumber" \in DOMAIN h /\ h.evaNumber # 0
                 THEN h.evaNumber ELSE DictGet(h, "extId", ""),
         platform |-> DictGet(h, "gleis", ""),
         rt_platform |-> DictGet(h, "ezGleis", ""),
         sched_dep |-> DictGet(h, "abfahrtsZeitpunkt", None),
         rt_dep |-> IF ezAb.text # "empty" THEN ezAb ELSE None,
         sched_arr |-> DictGet(h, "ankunftsZeitpunkt", None),
         rt_arr |-> IF ezAn.text # "empty" THEN ezAn ELSE None,
         is_cancelled |->
             \/ DictGet(h, "canceled", FALSE)
             \/ \E i \in 1..Len(meldungen) :
                   \/ ("type" \in DOMAIN meldungen[i]
                          /\ meldungen[i].type = "HALT_AUSFALL")
                   \/ ("key" \in DOMAIN meldungen[i]
                          /\ meldungen[i].key = "text.realtime.stop.cancelled"),
         is_additional |-> DictGet(h, "additional", FALSE)]

\* DepartureService.get_journey: the dict returned for a journey payload
JourneyOf(journey_id, raw) ==
    LET halte == DictGet(raw, "halte", <<>>) IN
    [journey_id |-> journey_id,
     train_name |-> DictGet(raw, "zugName", ""),
     date |-> DictGet(raw, "reisetag", ""),
     is_cancelled |-> DictGet(raw, "cancelled", FALSE),
     stops |-> [i \in 1..Len(halte) |-> MapStop(halte[i])]]

\* DepartureService.get_journey after the journey payload
AfterJourney(M, raw) == Finish(M, OkResult(JourneyOf(M.c.args.journey_id, raw)))

\* DepartureService.get_journey: BahnClient.get_journey(journey_id)
JourneyBeginMutStationsTtl(M) ==
    LET key == GetCacheKey(FahrtUrl, JourneyParams(M.c.args.journey_id))
        M1 == BeginGateway(M, "fahrt", FahrtUrl, key, Some(TTL_STATIONS), <<>>)
    IN  IF LastGw(M1).state = "ok" THEN AfterJourney(M1, LastGw(M1).ret) ELSE M1

JourneyBegin(M) ==
    LET key == GetCacheKey(FahrtUrl, JourneyParams(M.c.args.journey_id))
        M1 == BeginGateway(M, "fahrt", FahrtUrl, key, Some(TTL_JOURNEY), <<>>)
    IN  IF LastGw(M1).state = "ok" THEN AfterJourney(M1, LastGw(M1).ret) ELSE M1

\* the service code that follows the gateway call that has just returned `data`
AfterGateway(M, data) ==
    CASE LastGw(M).ep = "orte" -> AfterSearch(M, data)
      [] LastGw(M).ep = "abfahrten" -> AfterBoard(M, data)
      [] OTHER -> AfterJourney(M, data)

NotJson == [json |-> "invalid"]

\* BahnClient._get / BahnClient.get_departures from the response on:
\* _raise_for_status, response.json(), cache.set, return
OnResponseMutSkipEmpty(M, resp) ==
    LET g == LastGw(M)
        exc == RaiseForStatus(resp.status, g.url)
        M1 == [M EXCEPT !.c.gw[Len(M.c.gw)].status = resp.status]
    IN  IF exc # None THEN GatewayRaise(M1, exc)
        ELSE IF resp.body = NotJson THEN GatewayRaise(M1, JsonDecodeError)
        ELSE AfterGateway(
                 [M1 EXCEPT !.store = IF resp.body = [json |-> "list", items |-> <<>>]
                                      THEN @
                                      ELSE CacheSetStore(@, g.key, resp.body, g.ttl,
                                                         default_ttl, now),
                            !.first = IF g.key \in DOMAIN @
                                      THEN [@ EXCEPT ![g.key].modes = g.modes]
                                      ELSE DictPut(@, g.key,
                                                   [at |-> now, ttl |-> g.ttl[1],
                                                    modes |-> g.modes]),
                            !.c.gw[Len(M.c.gw)].wrote = TRUE,
                            !.c.gw[Len(M.c.gw)].state = "ok",
                            !.c.gw[Len(M.c.gw)].ret = resp.body],
                 resp.body)

OnResponseMutKeepFirst(M, resp) ==
    LET g == LastGw(M)
        exc == RaiseForStatus(resp.status, g.url)
        M1 == [M EXCEPT !.c.gw[Len(M.c.gw)].status = resp.status]
    IN  IF exc # None THEN GatewayRaise(M1, exc)
        ELSE IF resp.body = NotJson THEN GatewayRaise(M1, JsonDecodeError)
        ELSE AfterGateway(
                 [M1 EXCEPT !.store = IF CacheGetValue(@, g.key, now) # None THEN @
                                      ELSE CacheSetStore(@, g.key, resp.body, g.ttl,
                                                         default_ttl, now),
                            !.first = IF g.key \in DOMAIN @
                                      THEN [@ EXCEPT ![g.key].modes = g.modes]
                                      ELSE DictPut(@, g.key,
                                                   [at |-> now, ttl |-> g.ttl[1],
                                                    modes |-> g.modes]),
                            !.c.gw[Len(M.c.gw)].wrote = TRUE,
                            !.c.gw[Len(M.c.gw)].state = "ok",
                            !.c.gw[Len(M.c.gw)].ret = resp.body],
                 resp.body)

OnResponse(M, resp) ==
    LET g == LastGw(M)
        exc == RaiseForStatus(resp.status, g.url)
        M1 == [M EXCEPT !.c.gw[Len(M.c.gw)].status = resp.status]
    IN  IF exc # None THEN GatewayRaise(M1, exc)
        ELSE IF resp.body = NotJson THEN GatewayRaise(M1, JsonDecodeError)
        ELSE AfterGateway(
                 [M1 EXCEPT !.store = CacheSetStore(@, g.key, resp.body, g.ttl,
                                                    default_ttl, now),
                            !.first = IF g.key \in DOMAIN @
                                      THEN [@ EXCEPT ![g.key].modes = g.modes]
                                      ELSE DictPut(@, g.key,
                                                   [at |-> now, ttl |-> g.ttl[1],
                                                    modes |-> g.modes]),
                            !.c.gw[Len(M.c.gw)].wrote = TRUE,
                            !.c.gw[Len(M.c.gw)].state = "ok",
                            !.c.gw[Len(M.c.gw)].ret = resp.body],
                 resp.body)

\* `await self._http.get(...)` raises httpx.TimeoutException
OnTimeout(M) == GatewayRaise(M, TimeoutException)

----------------------------------------------------------------------------
(* Spec: concurrent invocations of the service *)

\* invocations started in one behaviour
MaxCalls == 2

\* last instant of the monotonic clock explored
MaxNow == 120

StationNames == {"Koeln"}

Sched0 == [text |-> "naive", wall |-> 600]

\* the board is asked for 14:00 Berlin time
DtArgs == {Some([wall |-> 14 * 3600, off |-> BerlinOffset])}

ModesArgs == {NoArg, Some(<<"ICE">>)}

JourneyIds == {"j1"}

\* bodies the upstream may answer with, per endpoint
SearchFound ==
    [json |-> "list",
     items |-> <<[evaNumber |-> JsonNumber(991), id |-> "A=4@O=Dom", name |-> "Dom",
                  type |-> "POI"],
                 [extId |-> JsonNumeral(8000207), id |-> "A=1@O=Sued", name |-> "Sued",
                  type |-> "ST"]>>]

SearchBodies == {[json |-> "list", items |-> <<>>], SearchFound}

BoardFound ==
    [json |-> "dict",
     entries |-> <<[journeyId |-> "j2", terminus |-> <<"c">>, zeit |-> Sched0,
                    ueber |-> << <<"c">>, <<"a">> >>],
                   [journeyId |-> "j4", terminus |-> <<"A">>, zeit |-> Sched0]>>]

BoardBodies == {BoardFound, [json |-> "dict"]}

JourneyFound ==
    [json |-> "dict", zugName |-> "ICE 619", reisetag |-> "2026-02-24",
     halte |-> <<[name |-> "Hbf", evaNumber |-> 8000105, canceled |-> FALSE,
                  risMeldungen |-> <<[type |-> "HALT_AUSFALL"]>>]>>]

JourneyBodies == {JourneyFound}

BodiesOf(ep) ==
    CASE ep = "orte" -> SearchBodies
      [] ep = "abfahrten" -> BoardBodies
      [] OTHER -> JourneyBodies

FoundBody(ep) ==
    CASE ep = "orte" -> SearchFound
      [] ep = "abfahrten" -> BoardFound
      [] OTHER -> JourneyFound

\* what the upstream may answer: 200 with a JSON body or with a body that is not
\* JSON, 304 with a JSON body (a 3xx that the client does not follow), 404, 500
ResponsesOf(ep) ==
    {[status |-> 200, body |-> b] : b \in BodiesOf(ep) \cup {NotJson}}
        \cup {[status |-> 304, body |-> FoundBody(ep)]}
        \cup {[status |-> st, body |-> NotJson] : st \in {404, 500}}

Init ==
    /\ store = EmptyStore
    /\ default_ttl = 90
    /\ now = 0
    /\ lastSet = <<>>
    /\ overwritten = <<>>
    /\ lastOp = NoOp
    /\ inp = NoCall
    /\ out = NoOp
    /\ ua_index = 0
    /\ calls = [p \in Procs |-> IdleCall]
    /\ last = IdleCall
    /\ ncalls = 0
    /\ firstOk = <<>>

Machine(p, c) == [store |-> store, ua |-> ua_index, first |-> firstOk, c |-> c]

\* the step's effect on the shared state and on the handler, which is free for the
\* next invocation once this one has ended
CommitState(p, M) ==
    /\ store' = M.store
    /\ ua_index' = M.ua
    /\ firstOk' = M.first
    /\ IF M.c.pc = "done"
       THEN calls' = [calls EXCEPT ![p] = IdleCall] /\ last' = M.c
       ELSE calls' = [calls EXCEPT ![p] = M.c] /\ UNCHANGED last
    /\ UNCHANGED <<default_ttl, now, mapVars>>

Commit(p, M) == CommitState(p, M) /\ UNCHANGED histVars

CanInvoke(p) ==
    /\ calls[p].pc = "idle"
    /\ p = "h1" \/ calls["h1"].pc # "idle"
    /\ ncalls < MaxCalls

NewCall(op, args) ==
    [pc |-> "run", op |-> op, args |-> args, location |-> None, gw |-> <<>>,
     result |-> None]

\* DepartureService.resolve_station(name)
InvokeResolveStation(p) ==
    \E name \in StationNames :
        /\ CanInvoke(p)
        /\ ncalls' = ncalls + 1
        /\ Commit(p, SearchBegin(Machine(p, NewCall("resolve_station",
                         [NoArgs EXCEPT !.station_name = name]))))

\* DepartureService.get_departures(station_name, dt, modes, destination_filter, max_results)
InvokeGetDepartures(p) ==
    \E name \in StationNames, dt \in DtArgs, modes \in ModesArgs :
        /\ CanInvoke(p)
        /\ ncalls' = ncalls + 1
        /\ Commit(p, SearchBegin(Machine(p, NewCall("get_departures",
                         [NoArgs EXCEPT !.station_name = name, !.dt = dt,
                                        !.modes = modes]))))

\* DepartureService.get_journey(journey_id)
InvokeGetJourney(p) ==
    \E jid \in JourneyIds :
        /\ CanInvoke(p)
        /\ ncalls' = ncalls + 1
        /\ Commit(p, JourneyBegin(Machine(p, NewCall("get_journey",
                         [NoArgs EXCEPT !.journey_id = jid]))))

\* the upstream answers the request of a suspended handler
UpstreamResponds(p) ==
    /\ calls[p].pc = "wait"
    /\ \E resp \in ResponsesOf(calls[p].gw[Len(calls[p].gw)].ep) :
           Commit(p, OnResponse(Machine(p, calls[p]), resp))
    /\ UNCHANGED ncalls

\* the request of a suspended handler exceeds the client's timeout
UpstreamTimesOut(p) ==
    /\ calls[p].pc = "wait"
    /\ Commit(p, OnTimeout(Machine(p, calls[p])))
    /\ UNCHANGED ncalls

\* time passes
Tick ==
    /\ now + 60 <= MaxNow
    /\ now' = now + 60
    /\ UNCHANGED <<store, default_ttl, histVars, mapVars, gwVars>>

Next ==
    \/ \E p \in Procs : InvokeResolveStation(p)
    \/ \E p \in Procs : InvokeGetDepartures(p)
    \/ \E p \in Procs : InvokeGetJourney(p)
    \/ \E p \in Procs : UpstreamResponds(p)
    \/ \E p \in Procs : UpstreamTimesOut(p)
    \/ Tick

Spec == Init /\ [][Next]_vars

----------------------------------------------------------------------------
(* SpecFresh: one handler making its invocations one after the other, over a   *)
(* clock that passes every endpoint's freshness window, and a cache built with *)
(* any of several default TTLs (BahnClient takes the cache it is given)        *)

\* the clock advances in steps of 60 s, up to this many steps
MaxFreshTicks == 6

FreshDefaultTtls == {1, 600}

InitFresh ==
    /\ store = EmptyStore
    /\ default_ttl \in FreshDefaultTtls
    /\ now = 0
    /\ lastSet = <<>>
    /\ overwritten = <<>>
    /\ lastOp = NoOp
    /\ inp = NoCall
    /\ out = NoOp
    /\ ua_index = 0
    /\ calls = [p \in Procs |-> IdleCall]
    /\ last = IdleCall
    /\ ncalls = 0
    /\ firstOk = <<>>

\* time passes; the clock is read for the first time by the first invocation, so
\* time 0 is taken to be its start
TickFresh ==
    /\ ncalls > 0
    /\ now + 60 <= 60 * MaxFreshTicks
    /\ now' = now + 60
    /\ UNCHANGED <<store, default_ttl, histVars, mapVars, gwVars>>

NextFresh ==
    \/ InvokeResolveStation("h1")
    \/ InvokeGetDepartures("h1")
    \/ InvokeGetJourney("h1")
    \/ UpstreamResponds("h1")
    \/ UpstreamTimesOut("h1")
    \/ TickFresh

SpecFresh == InitFresh /\ [][NextFresh]_vars

----------------------------------------------------------------------------
(* SpecBoard: one handler asking for the board of one station again and again, *)
(* with the board time given or left to now_berlin(), over a clock that passes *)
(* the freshness windows of the board and of the station search                *)

\* the clock advances in steps of 90 s, up to this many steps
MaxBoardTicks == 4

\* a board one of whose entries has a scheduled time that does not parse
BoardUnparsable ==
    [json |-> "dict",
     entries |-> <<[journeyId |-> "j2", terminus |-> <<"c">>, zeit |-> Sched0],
                   [journeyId |-> "j5", terminus |-> <<"b">>,
                    zeit |-> [text |-> "garbage"]]>>]

\* an invocation that fetched or found a board payload and failed to map it
FailedMap(c) ==
    /\ c.pc = "done" /\ c.op = "get_departures" /\ Len(c.gw) = 2
    /\ c.gw[2].state = "ok"
    /\ c.result.kind = "error"

\* the handler's frame; after is history: the board key of the invocation before
\* this one and the end of its payload's 90 s, when that one failed to map the
\* payload, got the same arguments, and the 90 s have not passed as this one starts
NewBoardCall(args) ==
    [pc |-> "run", op |-> "get_departures", args |-> args, location |-> None,
     gw |-> <<>>, result |-> None,
     after |-> IF /\ FailedMap(last) /\ last.args = args
                  /\ last.gw[2].key \in DOMAIN store
                  /\ now <= store[last.gw[2].key].expires_at
               THEN Some([key |-> last.gw[2].key,
                          until |-> store[last.gw[2].key].expires_at])
               ELSE NoArg]

BoardDtArgs == DtArgs \cup {NoArg}

\* DepartureService.get_departures(station_name, dt, None, None)
BoardInvoke ==
    /\ calls["h1"].pc = "idle"
    /\ ncalls < MaxCalls
    /\ \E name \in StationNames, dt \in BoardDtArgs :
           Commit("h1", SearchBegin(Machine("h1",
               NewBoardCall([NoArgs EXCEPT !.station_name = name, !.dt = dt]))))
    /\ ncalls' = ncalls + 1

\* the upstream answers the handler's request
BoardResponds ==
    /\ calls["h1"].pc = "wait"
    /\ \E resp \in ResponsesOf(calls["h1"].gw[Len(calls["h1"].gw)].ep)
                      \cup {[status |-> 200, body |-> BoardUnparsable]} :
           /\ resp.body = BoardUnparsable
                  => calls["h1"].gw[Len(calls["h1"].gw)].ep = "abfahrten"
           /\ Commit("h1", OnResponse(Machine("h1", calls["h1"]), resp))
    /\ UNCHANGED ncalls

\* time passes
BoardTick ==
    /\ ncalls > 0
    /\ now + 90 <= 90 * MaxBoardTicks
    /\ now' = now + 90
    /\ UNCHANGED <<store, default_ttl, histVars, mapVars, gwVars>>

NextBoard ==
    \/ BoardInvoke
    \/ BoardResponds
    \/ UpstreamTimesOut("h1")
    \/ BoardTick

SpecBoard == Init /\ [][NextBoard]_vars

----------------------------------------------------------------------------
(* SpecSearch: two handlers resolving one station name, concurrently and one   *)
(* after the other, over a clock that passes the search's freshness window     *)

\* the clock advances in steps of 150 s, up to this many steps
MaxSearchTicks == 3

EmptySearch == [json |-> "list", items |-> <<>>]

\* lastOp after a step that ends an invocation with result M.c: when its search
\* request was answered with an empty list, the key and the time of that answer
EmptySearchSeen(M) ==
    IF /\ M.c.pc = "done" /\ M.c.gw[1].sent = 1 /\ M.c.gw[1].state = "ok"
       /\ M.c.gw[1].ret = EmptySearch
    THEN [op |-> "empty_search", key |-> M.c.gw[1].key, at |-> now]
    ELSE lastOp

\* the handler's frame; after is history: the time a search request for the name
\* was last answered with an empty list, when no more than 300 s have passed since
NewSearchCall(name) ==
    [pc |-> "run", op |-> "resolve_station",
     args |-> [NoArgs EXCEPT !.station_name = name], location |-> None,
     gw |-> <<>>, result |-> None,
     after |-> IF /\ lastOp.op = "empty_search"
                  /\ lastOp.key = GetCacheKey(OrteUrl, SearchParams(name, 10))
                  /\ now <= lastOp.at + 300
               THEN Some(lastOp.at) ELSE NoArg]

\* DepartureService.resolve_station(name)
SearchInvoke(p) ==
    /\ calls[p].pc = "idle"
    /\ p = "h1" \/ calls["h1"].pc # "idle"
    /\ ncalls < MaxCalls + 1
    /\ \E name \in StationNames :
           CommitState(p, SearchBegin(Machine(p, NewSearchCall(name))))
    /\ ncalls' = ncalls + 1
    /\ UNCHANGED histVars

\* the upstream answers a suspended handler's search request
SearchResponds(p) ==
    /\ calls[p].pc = "wait"
    /\ \E resp \in ResponsesOf("orte") :
           LET M == OnResponse(Machine(p, calls[p]), resp) IN
           /\ CommitState(p, M)
           /\ lastOp' = EmptySearchSeen(M)
    /\ UNCHANGED <<ncalls, lastSet, overwritten>>

\* time passes
SearchTick ==
    /\ ncalls > 0
    /\ now + 150 <= 150 * MaxSearchTicks
    /\ now' = now + 150
    /\ UNCHANGED <<store, default_ttl, histVars, mapVars, gwVars>>

NextSearch ==
    \/ \E p \in Procs : SearchInvoke(p)
    \/ \E p \in Procs : SearchResponds(p)
    \/ \E p \in Procs : UpstreamTimesOut(p)
    \/ SearchTick

SpecSearch == Init /\ [][NextSearch]_vars

----------------------------------------------------------------------------
(* mcp/tools.py: the tool boundary. The text of an embedded resource is       *)
(* modelled by the JSON value it spells; a tool's outcome is OkResult(list)   *)
(* when it returns and ErrResult(exc) when an exception leaves it.            *)

\* _as_resource
AsResource(json_str) ==
    <<[type |-> "resource",
       resource |-> [uri |-> "mcp://db-mcp/result", mimeType |-> "application/json",
                     text |-> json_str]]>>

\* _error_json
ErrorJson(message) == [error |-> message]

\* an exception of a class outside the ones _handle_exception names
OtherException == [kind |-> "ConnectError", status_code |-> 0, message |-> "connection refused"]

\* ValueError(message)
ValueErrorExc(message) == [kind |-> "ValueError", status_code |-> 0, message |-> message]

\* _handle_exception
HandleExceptionMutNoFriendly5xx(exc) ==
    CASE exc.kind = "StationNotFoundError" -> AsResource(ErrorJson(exc.message))
      [] exc.kind = "ApiError" ->
            IF exc.status_code = 400
            THEN AsResource(ErrorJson("Invalid request. Please check your inputs."))
            ELSE IF exc.status_code = 404
            THEN AsResource(ErrorJson("Resource not found."))
            ELSE AsResource(ErrorJson(exc.message))
      [] exc.kind = "TimeoutException" ->
            AsResource(ErrorJson("Request timed out. Please try again."))
      [] exc.kind = "ValueError" -> AsResource(ErrorJson(exc.message))
      [] OTHER -> AsResource(ErrorJson("An unexpected error occurred."))

HandleException(exc) ==
    CASE exc.kind = "StationNotFoundError" -> AsResource(ErrorJson(exc.message))
      [] exc.kind = "ApiError" ->
            IF exc.status_code = 400
            THEN AsResource(ErrorJson("Invalid request. Please check your inputs."))
            ELSE IF exc.status_code = 404
            THEN AsResource(ErrorJson("Resource not found."))
            ELSE IF exc.status_code >= 500
            THEN AsResource(ErrorJson("Upstream API error (" \o ToString(exc.status_code)
                                          \o "). Please try again later."))
            ELSE AsResource(ErrorJson(exc.message))
      [] exc.kind = "TimeoutException" ->
            AsResource(ErrorJson("Request timed out. Please try again."))
      [] exc.kind = "ValueError" -> AsResource(ErrorJson(exc.message))
      [] OTHER -> AsResource(ErrorJson("An unexpected error occurred."))

\* `try: ... return _as_resource(json.dumps(result)) except Exception as exc:
\* return _handle_exception(exc)` around an outcome r of the code in the try block
CatchExceptionMutDomainOnly(r, json_str) ==
    IF r.kind = "ok" THEN OkResult(AsResource(json_str))
    ELSE IF r.exc.kind \in {"StationNotFoundError", "ApiError"}
    THEN OkResult(HandleException(r.exc))
    ELSE ErrResult(r.exc)

CatchException(r, json_str) ==
    IF r.kind = "ok" THEN OkResult(AsResource(json_str))
    ELSE OkResult(HandleException(r.exc))

\* str.strip() on the characters of the model's alphabet
RECURSIVE Strip(_)
Strip(s) ==
    IF Len(s) = 0 THEN s
    ELSE IF s[1] = " " THEN Strip(SubSeq(s, 2, Len(s)))
    ELSE IF s[Len(s)] = " " THEN Strip(SubSeq(s, 1, Len(s) - 1))
    ELSE s

\* str.upper() on the characters of the model's alphabet
UpperChar(c) ==
    CASE c = "i" -> "I"
      [] c = "c" -> "C"
      [] c = "e" -> "E"
      [] OTHER -> c

\* the str that a sequence of characters spells
RECURSIVE StrOf(_)
StrOf(chars) == IF Len(chars) = 0 THEN "" ELSE chars[1] \o StrOf(SubSeq(chars, 2, Len(chars)))

Upper(s) == StrOf([i \in 1..Len(s) |-> UpperChar(s[i])])

\* _parse_datetime_str: strptime with DATETIME_FORMAT takes the naive form only
ParseDatetimeStr(datetime_str) ==
    IF datetime_str = NoArg THEN OkResult(NoArg)
    ELSE IF datetime_str[1].text = "naive"
    THEN OkResult(Some(ReplaceBerlin(datetime_str[1].wall)))
    ELSE ErrResult(ValueErrorExc("Invalid datetime format, expected YYYY-MM-DDTHH:MM:SS"))

\* _validate_modes
ValidateModes(transport_modes) ==
    IF transport_modes = NoArg THEN OkResult(NoArg)
    ELSE LET modes == transport_modes[1]
             valid_values == {ModeOrder[i] : i \in 1..Len(ModeOrder)}
             bad == {i \in 1..Len(modes) : Upper(modes[i]) \notin valid_values}
         IN  IF bad # {}
             THEN ErrResult(ValueErrorExc("Unknown transport mode: "
                      \o StrOf(modes[CHOOSE i \in bad : \A j \in bad : i <= j])))
             ELSE OkResult(Some([i \in 1..Len(modes) |-> Upper(modes[i])]))

\* str(datetime) under json.dumps(default=str); None stays null
DumpDatetime(dt) ==
    IF dt = None THEN None ELSE [str |-> "datetime", wall |-> dt.wall, off |-> dt.off]

\* dataclasses.asdict(d) as json.dumps(default=str) writes it
DumpDeparture(d) ==
    [d EXCEPT !.scheduled_departure = DumpDatetime(@),
              !.rt_departure = DumpDatetime(@),
              !.effective_departure = DumpDatetime(@)]

\* the get_departures tool: the JSON text of a successful result
DeparturesJson(datetime_str, dt, value) ==
    [station |-> value.station,
     boardTime |-> IF dt # NoArg THEN datetime_str[1] ELSE None,
     departures |-> [i \in 1..Len(value.departures) |-> DumpDeparture(value.departures[i])],
     count |-> Len(value.departures)]

\* the get_journey tool; service is what departure_svc.get_journey does when awaited
ToolGetJourney(journey_id, service) ==
    IF Strip(journey_id) = <<>>
    THEN OkResult(AsResource(ErrorJson("journey_id cannot be empty")))
    ELSE CatchException(service, service.value)

\* the get_departures tool: whether it reaches the call of the service
ToolCallsServiceMutNameOnly(station_name, datetime_str, transport_modes) ==
    Strip(station_name) # <<>>

ToolCallsService(station_name, datetime_str, transport_modes) ==
    /\ Strip(station_name) # <<>>
    /\ ParseDatetimeStr(datetime_str).kind = "ok"
    /\ ValidateModes(transport_modes).kind = "ok"

\* the get_departures tool; service is what departure_svc.get_departures does when
\* awaited
ToolGetDepartures(station_name, datetime_str, transport_modes, service) ==
    LET dt == ParseDatetimeStr(datetime_str)
        modes == ValidateModes(transport_modes)
    IN  IF Strip(station_name) = <<>>
        THEN OkResult(AsResource(ErrorJson("Station name cannot be empty")))
        ELSE IF dt.kind # "ok" THEN CatchException(dt, None)
        ELSE IF modes.kind # "ok" THEN CatchException(modes, None)
        ELSE CatchException(service,
                 IF service.kind = "ok"
                 THEN DeparturesJson(datetime_str, dt.value, service.value)
                 ELSE None)

----------------------------------------------------------------------------
(* SpecTool: the tools invoked over the service, the gateway and the cache. A  *)
(* tool call that fails validation returns in the step that invokes it.       *)

\* a handler running a tool: the frame of the service invocation and the tool's
\* arguments
NewToolCall(op, args, tool) ==
    [pc |-> "run", op |-> op, args |-> args, location |-> None, gw |-> <<>>,
     result |-> None, tool |-> tool]

\* what the tool returns once the service has returned or raised (c.result)
ToolValue(c) ==
    IF c.tool.name = "get_departures"
    THEN ToolGetDepartures(c.tool.station_name, c.tool.datetime_str,
                           c.tool.transport_modes, c.result)
    ELSE ToolGetJourney(c.tool.journey_id, c.result)

\* the tool's own code after the awaited service call
ToolReturn(M) == IF M.c.pc = "done" THEN [M EXCEPT !.c.result = ToolValue(M.c)] ELSE M

\* tool arguments: station names "", " " and " K ", board times 2026-02-24T14:00:00
\* and one that is no such string, mode lists ["ice"] and ["ICE", "X"]
CallStationNames == {<<>>, <<" ">>, <<" ", "K", " ">>}

CallDatetimeStrs == {Some([text |-> "naive", wall |-> 14 * 3600]), Some([text |-> "garbage"])}

CallModes == {Some(<< <<"i", "c", "e">> >>), Some(<< <<"I", "C", "E">>, <<"X">> >>)}

CallJourneyIds == {<<" ">>, <<"j", "1">>}

\* the get_departures tool up to its first await
InvokeToolGetDepartures(p) ==
    /\ CanInvoke(p)
    /\ \E station_name \in CallStationNames, datetime_str \in CallDatetimeStrs,
          transport_modes \in CallModes :
           LET dt == ParseDatetimeStr(datetime_str)
               modes == ValidateModes(transport_modes)
               c == NewToolCall("get_departures",
                        [NoArgs EXCEPT !.station_name = StrOf(Strip(station_name)),
                                       !.dt = IF dt.kind = "ok" THEN dt.value ELSE NoArg,
                                       !.modes = IF modes.kind = "ok" THEN modes.value
                                                 ELSE NoArg],
                        [name |-> "get_departures", station_name |-> station_name,
                         datetime_str |-> datetime_str,
                         transport_modes |-> transport_modes])
           IN  /\ ncalls' = ncalls + 1
               /\ Commit(p, ToolReturn(
                      IF ToolCallsService(station_name, datetime_str, transport_modes)
                      THEN SearchBegin(Machine(p, c))
                      ELSE Finish(Machine(p, c), None)))

\* the get_journey tool up to its first await
InvokeToolGetJourney(p) ==
    /\ CanInvoke(p)
    /\ \E journey_id \in CallJourneyIds :
           LET c == NewToolCall("get_journey",
                        [NoArgs EXCEPT !.journey_id = StrOf(journey_id)],
                        [name |-> "get_journey", journey_id |-> journey_id])
           IN  /\ ncalls' = ncalls + 1
               /\ Commit(p, ToolReturn(
                      IF Strip(journey_id) # <<>>
                      THEN JourneyBegin(Machine(p, c))
                      ELSE Finish(Machine(p, c), None)))

\* the upstream answers the request of a suspended tool call
ToolUpstreamResponds(p) ==
    /\ calls[p].pc = "wait"
    /\ \E resp \in ResponsesOf(calls[p].gw[Len(calls[p].gw)].ep) :
           Commit(p, ToolReturn(OnResponse(Machine(p, calls[p]), resp)))
    /\ UNCHANGED ncalls

\* the request of a suspended tool call exceeds the client's timeout
ToolUpstreamTimesOut(p) ==
    /\ calls[p].pc = "wait"
    /\ Commit(p, ToolReturn(OnTimeout(Machine(p, calls[p]))))
    /\ UNCHANGED ncalls

NextTool ==
    \/ \E p \in Procs : InvokeToolGetDepartures(p)
    \/ \E p \in Procs : InvokeToolGetJourney(p)
    \/ \E p \in Procs : ToolUpstreamResponds(p)
    \/ \E p \in Procs : ToolUpstreamTimesOut(p)
    \/ Tick

SpecTool == Init /\ [][NextTool]_vars

----------------------------------------------------------------------------
(* SpecMap: the pure parts of the service applied to bounded inputs *)

\* longest station-search result list
MaxStations == 3

\* longest via list of a raw board entry
MaxVia == 3

\* longest board (entries list)
MaxBoard == 3

SeqsUpTo(S, n) == UNION {[1..k -> S] : k \in 0..n}

\* raw locations: identifiers as numbers and as the strings the upstream sends, one
\* with both fields, one with neither, one negative, one that spells no integer
StationRaws ==
    {[evaNumber |-> JsonNumber(8000105), extId |-> JsonNumeral(8000106),
      id |-> "A=1@O=Hbf", name |-> "Hbf", type |-> "ST", products |-> <<"ICE">>],
     [extId |-> JsonNumeral(8000207), id |-> "A=1@O=Sued", name |-> "Sued", type |-> "ST"],
     [evaNumber |-> JsonNumber(991), id |-> "A=4@O=Dom", name |-> "Dom", type |-> "POI"],
     [id |-> "A=2@O=Weg 1", name |-> "Weg 1", type |-> "ADR"],
     [evaNumber |-> JsonNumber(8000303), id |-> "A=1@O=West", name |-> "West"],
     [extId |-> JsonNumeral(-1), id |-> "A=1@O=Nord", name |-> "Nord", type |-> "ST"],
     [evaNumber |-> JsonWord, extId |-> JsonNumeral(8000404), id |-> "A=1@O=Ost",
      name |-> "Ost"]}

SearchResults == SeqsUpTo(StationRaws, MaxStations) \ {<<>>}

ViaNames == {<<"a">>, <<"B", "c">>}

SchedStrs == {[text |-> "naive", wall |-> 600], [text |-> "garbage"]}

\* "0001-01-01T00:00:00+05:00" is the extreme one: ISO-8601, but an instant before
\* year 1 in Berlin time
RtStrs ==
    {[text |-> "naive", wall |-> 1085], [text |-> "empty"], [text |-> "blank"],
     [text |-> "garbage"], [text |-> "extreme"]}

\* timestamp strings around the two offset changes of 2026, and two winter ones:
\* 2026-02-24T00:10:00, 2026-02-24T00:18:05, 2026-03-29T01:30:00, 2026-03-29T03:10:00,
\* 2026-10-25T02:10:00+01:00, 2026-10-25T02:50:00+02:00
DelayTimeStrs ==
    {[text |-> "naive", wall |-> 600],
     [text |-> "naive", wall |-> 1085],
     [text |-> "naive", wall |-> 33 * 86400 + 5400],
     [text |-> "naive", wall |-> 33 * 86400 + 11400],
     [text |-> "offset", wall |-> 243 * 86400 + 7800, off |-> 3600],
     [text |-> "offset", wall |-> 243 * 86400 + 10200, off |-> 7200]}

\* longest upstream message list of one board entry
MaxMessages == 2

\* upstream messages: a cancelled stop, a disruption note, one with no type, and one
\* whose type differs from HALT_AUSFALL in case only
MessageRaws ==
    {[type |-> "HALT_AUSFALL", text |-> "Halt entfaellt"],
     [type |-> "HIM", text |-> "Bauarbeiten"],
     [text |-> "ohne Typ"],
     [type |-> "halt_ausfall", text |-> ""]}

\* raw board entries for the mapping of one entry
MapInputs ==
    {[terminus |-> <<"c">>, zeit |-> z, ezZeit |-> e, ueber |-> u] :
        z \in SchedStrs, e \in RtStrs, u \in SeqsUpTo(ViaNames, MaxVia)}
    \cup {[terminus |-> <<"c">>, zeit |-> z] : z \in SchedStrs}
    \cup {[terminus |-> <<"c">>, zeit |-> Sched0, meldungen |-> ms] :
              ms \in SeqsUpTo(MessageRaws, MaxMessages)}
    \cup {[terminus |-> <<"c">>, zeit |-> z, ezZeit |-> e] :
              z \in DelayTimeStrs, e \in DelayTimeStrs}

\* raw board entries for the boards that are filtered and truncated: one matched by
\* its destination, one by a via station only, one whose origin alone spells the
\* filter, one with no via list, and three whose scheduled time does not parse, is
\* empty, or is missing
BoardEntries ==
    {[journeyId |-> "j1", terminus |-> <<"a", "B">>, zeit |-> Sched0,
      ueber |-> << <<"c">>, <<"c", "a">> >>,
      meldungen |-> <<[type |-> "HIM", text |-> "Bauarbeiten"],
                      [type |-> "HALT_AUSFALL", text |-> "Halt entfaellt"]>>],
     [journeyId |-> "j2", terminus |-> <<"c">>, zeit |-> Sched0,
      ueber |-> << <<"c">>, <<"a">>, <<"B", "c">> >>,
      meldungen |-> <<[type |-> "HIM", text |-> "Bauarbeiten"]>>],
     [journeyId |-> "j3", terminus |-> <<"c">>, zeit |-> Sched0,
      ueber |-> << <<"b">> >>],
     [journeyId |-> "j4", terminus |-> <<"A">>, zeit |-> Sched0],
     [journeyId |-> "j5", terminus |-> <<"b">>, zeit |-> [text |-> "garbage"]],
     [journeyId |-> "j6", terminus |-> <<"a">>, zeit |-> EmptyTimeStr],
     [journeyId |-> "j7", terminus |-> <<"a">>]}

Boards == SeqsUpTo(BoardEntries, MaxBoard)

FilterArgs ==
    {NoArg, Some(<<>>), Some(<<"b">>), Some(<<"B">>), Some(<<"a", "b">>),
     Some(<<"C", "A">>), Some(<<"a">>)}

\* max_results is any int; 20 is the default
MaxResultsArgs == (-2..(MaxBoard + 1)) \cup {20}

\* longest list of mode codes of a departures request
MaxModes == 2

\* mode codes that the lists are made of: TransportMode values
ModeCodes == {"ICE", "IR", "BUS"}

ModeLists == SeqsUpTo(ModeCodes, MaxModes)

\* DepartureService.resolve_station after a non-empty search result
EvalResolveStation ==
    /\ inp = NoCall
    /\ \E results \in SearchResults :
           /\ inp' = [fn |-> "resolve_station", results |-> results]
           /\ out' = SelectStation(results)
           /\ UNCHANGED <<cacheVars, histVars, gwVars>>

\* DepartureService._map_departure
EvalMapDeparture ==
    /\ inp = NoCall
    /\ \E raw \in MapInputs :
           /\ inp' = [fn |-> "_map_departure", raw |-> raw]
           /\ out' = MapDeparture(raw)
           /\ UNCHANGED <<cacheVars, histVars, gwVars>>

\* DepartureService.get_departures from the board payload's entries on
EvalGetDepartures ==
    /\ inp = NoCall
    /\ \E entries \in Boards, f \in FilterArgs, m \in MaxResultsArgs :
           /\ inp' = [fn |-> "get_departures", entries |-> entries,
                      destination_filter |-> f, max_results |-> m]
           /\ out' = DeparturesOf(entries, f, m)
           /\ UNCHANGED <<cacheVars, histVars, gwVars>>

\* BahnClient.get_departures twice for one station, date and time: the cache key of
\* each call, and what the second finds in a cache that holds the first's board
EvalCacheKey ==
    /\ inp = NoCall
    /\ \E a \in ModeLists, b \in ModeLists :
           LET key_a == DeparturesCacheKey(8000207, "A=1@O=Sued", "2026-02-24", "14:00:00", a)
               key_b == DeparturesCacheKey(8000207, "A=1@O=Sued", "2026-02-24", "14:00:00", b)
               filled == CacheSetStore(EmptyStore, key_a, BoardFound,
                                       Some(TTL_DEPARTURES), default_ttl, now)
           IN  /\ inp' = [fn |-> "cache_key", modes_a |-> a, modes_b |-> b]
               /\ out' = [key_a |-> key_a, key_b |-> key_b,
                          cached |-> CacheGetValue(filled, key_b, now)]
               /\ UNCHANGED <<cacheVars, histVars, gwVars>>

\* the datetimes the service passes to delay_minutes: parsed upstream timestamps
DelayDatetimes == {ParseBahnDatetime(s).val : s \in DelayTimeStrs}

\* services.delay_minutes
EvalDelayMinutes ==
    /\ inp = NoCall
    /\ \E sched \in DelayDatetimes, rt \in DelayDatetimes \cup {None} :
           /\ inp' = [fn |-> "delay_minutes", sched |-> sched, rt |-> rt]
           /\ out' = DelayMinutes(sched, rt)
           /\ UNCHANGED <<cacheVars, histVars, gwVars>>

\* statuses with which the upstream refuses a request
UpstreamErrorStatuses == {400, 401, 403, 404, 429, 499, 500, 503}

\* what the service raises: its own errors, the gateway's, and anything else
ServiceExceptions ==
    {StationNotFoundError("Station not found: Koeln"), TimeoutException, JsonDecodeError,
     ParseValueError, OtherException}
    \cup {RaiseForStatus(sc, OrteUrl) : sc \in UpstreamErrorStatuses}
    \cup {ApiError(403, "Forbidden")}

\* what get_departures does when awaited
DeparturesOutcomes ==
    {OkResult([station |-> SelectStation(SearchFound.items).val,
               departures |-> MapEntries(BoardFound.entries).val]),
     OkResult([station |-> SelectStation(SearchFound.items).val, departures |-> <<>>])}
    \cup {ErrResult(e) : e \in ServiceExceptions}

\* what get_journey does when awaited
JourneyOutcomes ==
    {OkResult(JourneyOf("j1", JourneyFound))} \cup {ErrResult(e) : e \in ServiceExceptions}

ToolStationNames == {<<>>, <<" ">>, <<"K">>, <<" ", "K", " ">>}

ToolDatetimeStrs ==
    {NoArg, Some([text |-> "naive", wall |-> 14 * 3600]), Some([text |-> "garbage"]),
     Some([text |-> "zulu", wall |-> 14 * 3600])}

ToolModes ==
    {NoArg, Some(<< >>), Some(<< <<"I", "C", "E">> >>), Some(<< <<"i", "c", "e">> >>),
     Some(<< <<"I", "C", "E">>, <<"X">>, <<"Y">> >>)}

ToolJourneyIds == {<<>>, <<" ">>, <<"j", "1">>}

\* the get_departures tool
EvalToolGetDepartures ==
    /\ inp = NoCall
    /\ \E station_name \in ToolStationNames, datetime_str \in ToolDatetimeStrs,
          transport_modes \in ToolModes, service \in DeparturesOutcomes :
           /\ inp' = [fn |-> "tool_get_departures", station_name |-> station_name,
                      datetime_str |-> datetime_str, transport_modes |-> transport_modes,
                      service |-> service,
                      called |-> ToolCallsService(station_name, datetime_str,
                                                  transport_modes)]
           /\ out' = ToolGetDepartures(station_name, datetime_str, transport_modes,
                                       service)
           /\ UNCHANGED <<cacheVars, histVars, gwVars>>

\* the get_journey tool
EvalToolGetJourney ==
    /\ inp = NoCall
    /\ \E journey_id \in ToolJourneyIds, service \in JourneyOutcomes :
           /\ inp' = [fn |-> "tool_get_journey", journey_id |-> journey_id,
                      service |-> service, called |-> Strip(journey_id) # <<>>]
           /\ out' = ToolGetJourney(journey_id, service)
           /\ UNCHANGED <<cacheVars, histVars, gwVars>>

\* timestamp strings given to the parser: the ones above, 2026-02-24T14:30:00Z,
\* 2026-07-15T14:30:00+02:00, 2026-02-24T09:30:00-05:00, 2026-03-29T02:30:00 (a
\* wall-clock time that the change to summer time skips) and 2026-02-24
ParseStrs ==
    DelayTimeStrs \cup SchedStrs \cup RtStrs
    \cup {[text |-> "zulu", wall |-> 14 * 3600 + 1800],
          [text |-> "offset", wall |-> 141 * 86400 + 14 * 3600 + 1800, off |-> 7200],
          [text |-> "offset", wall |-> 9 * 3600 + 1800, off |-> -18000],
          [text |-> "naive", wall |-> 33 * 86400 + 9000],
          [text |-> "date", wall |-> 0]}

\* parse_bahn_datetime, on an interpreter before or from Python 3.11
EvalParse ==
    /\ inp = NoCall
    /\ \E s \in ParseStrs, py311 \in BOOLEAN :
           /\ inp' = [fn |-> "parse_bahn_datetime", s |-> s, py311 |-> py311]
           /\ out' = IF py311 THEN ParseBahnDatetime(s) ELSE ParseBahnDatetimePy310(s)
           /\ UNCHANGED <<cacheVars, histVars, gwVars>>

NextMap ==
    \/ EvalResolveStation
    \/ EvalParse
    \/ EvalToolGetDepartures
    \/ EvalToolGetJourney
    \/ EvalDelayMinutes
    \/ EvalMapDeparture
    \/ EvalGetDepartures
    \/ EvalCacheKey

SpecMap == Init /\ [][NextMap]_vars

----------------------------------------------------------------------------
(* Claims *)

\* C1: TTL cache expiry. After set(k, v, T) at monotonic time t0 with no later
\* set/invalidate/clear touching k, a get(k) at a time t < t0+T returns v, and a
\* get(k) at a time t > t0+T returns absent and leaves no entry for k in the store.
C1_TtlExpiry ==
    (lastOp.op = "get" /\ lastOp.key \in DOMAIN lastSet) =>
        LET s == lastSet[lastOp.key] IN
        /\ (lastOp.at < s.at + s.T) => (lastOp.ret = s.data)
        /\ (lastOp.at > s.at + s.T) =>
               (lastOp.ret = None /\ lastOp.key \notin DOMAIN store)

\* C1 witness: a get has just found expired an entry that was set with ttl 2.
C1_Witness ==
    /\ lastOp.op = "get" /\ lastOp.key \in DOMAIN lastSet
    /\ lastSet[lastOp.key].T = 2
    /\ lastOp.at > lastSet[lastOp.key].at + lastSet[lastOp.key].T
    /\ lastOp.ret = None

\* every invocation, suspended or ended, and the gateway calls they made
AllCalls == {calls[p] : p \in Procs} \cup {last}

AllGw == UNION {{c.gw[i] : i \in 1..Len(c.gw)} : c \in AllCalls}

C3_NonOkFails ==
    \A g \in AllGw :
        (g.status # 0 /\ (g.status < 200 \/ g.status >= 300))
            => /\ g.state = "raised"
               /\ g.err.kind = "ApiError"
               /\ g.err.status_code = g.status
               /\ g.status = 404 => g.err.message = "Resource not found (404): " \o g.url
               /\ g.ret = None
               /\ ~g.wrote

\* the set of the mode codes of a list
CodesOf(modes) == {modes[i] : i \in 1..Len(modes)}

\* C4: mode filters are never conflated. Two get_departures gateway calls for the same
\* eva, hafas id, date and time that ask for different sets of mode codes compute
\* different cache keys, and the board cached by the one is not found by the other.
C4_ModesNotConflated ==
    (inp.fn = "cache_key" /\ CodesOf(inp.modes_a) # CodesOf(inp.modes_b))
        => out.key_a # out.key_b /\ out.cached = None

\* the same two codes in a different order against one of them, and "all modes"
\* against one code
C4_Witness ==
    /\ inp.fn = "cache_key"
    /\ \/ inp.modes_a = <<"IR", "ICE">> /\ inp.modes_b = <<"ICE">>
       \/ inp.modes_a = <<>> /\ inp.modes_b = <<"BUS">>
    /\ out.cached = None

IsSt(raw) == "type" \in DOMAIN raw /\ raw.type = "ST"

\* C6: station selection rule. resolve_station over a non-empty search result returns
\* the Location mapped from the first entry whose type is "ST" when there is one,
\* whatever its position, and otherwise the Location mapped from the first entry.
C6_StationSelection ==
    inp.fn = "resolve_station" =>
        LET r == inp.results IN
        /\ \A i \in 1..Len(r) :
              (IsSt(r[i]) /\ \A j \in 1..(i - 1) : ~IsSt(r[j])) => out = MapLocation(r[i])
        /\ (\A i \in 1..Len(r) : ~IsSt(r[i])) => out = MapLocation(r[1])

\* C6 witness: the only "ST" entry is the last of three, and it was selected.
C6_Witness ==
    /\ inp.fn = "resolve_station"
    /\ Len(inp.results) = 3
    /\ ~IsSt(inp.results[1]) /\ ~IsSt(inp.results[2]) /\ IsSt(inp.results[3])
    /\ out.ok /\ out.val.hafas_id = inp.results[3].id

\* C7: station-not-found ordering. When the station search yields an empty list,
\* resolve_station and get_departures raise StationNotFoundError whose message carries
\* the queried name, and the invocation makes no board call; a board call is made
\* only after the station search of the same invocation returned a non-empty list.
C7_NotFoundOrdering ==
    \A c \in AllCalls :
        /\ (c.op \in {"resolve_station", "get_departures"}
               /\ c.gw[1].state = "ok" /\ c.gw[1].ret.items = <<>>)
              => /\ c.pc = "done"
                 /\ c.result.kind = "error"
                 /\ c.result.exc.kind = "StationNotFoundError"
                 /\ c.result.exc.message = "Station not found: " \o c.args.station_name
                 /\ Len(c.gw) = 1
        /\ \A i \in 1..Len(c.gw) :
               c.gw[i].ep = "abfahrten"
                  => /\ i = 2
                     /\ c.gw[1].ep = "orte" /\ c.gw[1].state = "ok"
                     /\ c.gw[1].ret.items # <<>>

\* get_departures for a name that the search, answered from the cache, does not know
C7_Witness ==
    /\ last.op = "get_departures"
    /\ last.gw[1].ret = [json |-> "list", items |-> <<>>]
    /\ last.gw[1].sent = 0
    /\ last.result.kind = "error"
    /\ last.result.exc.kind = "StationNotFoundError"

\* the first n elements of s, all of s when it has fewer, none when n is negative
FirstN(s, n) == SubSeq(s, 1, IF n < 0 THEN 0 ELSE IF n < Len(s) THEN n ELSE Len(s))

\* C8: filter before truncate. For every max_results accepted, the returned list is
\* exactly the first max_results elements (all when fewer exist) of the mapped
\* departures that satisfy the destination filter, in upstream order, and it never
\* has more than max_results elements (none for a negative max_results).
C8_FilterBeforeTruncate ==
    (inp.fn = "get_departures" /\ out.ok) =>
        LET matching == ApplyDestinationFilter(MapEntries(inp.entries).val,
                                               inp.destination_filter)
        IN  /\ out.val = FirstN(matching, inp.max_results)
            /\ Len(out.val) <= PyMax(inp.max_results, 0)

\* case-insensitive occurrence of the string f in the string s
SameLetter(x, y) == x = y \/ {x, y} \in {{"a", "A"}, {"b", "B"}, {"c", "C"}}

OccursIn(f, s) ==
    \E k \in 1..(Len(s) - Len(f) + 1) : \A j \in 1..Len(f) : SameLetter(f[j], s[k + j - 1])

KeptByClaim(d, f) ==
    \/ f = NoArg
    \/ f[1] = <<>>
    \/ OccursIn(f[1], d.destination)
    \/ \E v \in 1..Len(d.via_stations) : OccursIn(f[1], d.via_stations[v])

C10_ViaSkipsOrigin ==
    (inp.fn = "_map_departure" /\ out.ok) =>
        LET u == IF "ueber" \in DOMAIN inp.raw THEN inp.raw.ueber ELSE <<>>
            via == out.val.via_stations
        IN  /\ Len(via) = (IF Len(u) = 0 THEN 0 ELSE Len(u) - 1)
            /\ \A i \in 1..Len(via) : via[i] = u[i + 1]

\* C10 witness: a via list of three stations was mapped to its last two.
C10_Witness ==
    /\ inp.fn = "_map_departure" /\ out.ok
    /\ "ueber" \in DOMAIN inp.raw /\ Len(inp.raw.ueber) = 3
    /\ inp.raw.ueber[1] # inp.raw.ueber[2]
    /\ Len(out.val.via_stations) = 2

\* C11: delay computation. delay_minutes is 0 when the real-time instant is absent
\* or not later than the scheduled instant, otherwise the whole minutes elapsed from
\* the scheduled to the real-time instant, rounded down; it is never negative.
C11_DelayComputation ==
    (inp.fn = "delay_minutes") =>
        /\ out >= 0
        /\ IF inp.rt = None THEN out = 0
           ELSE LET elapsed == Instant(inp.rt) - Instant(inp.sched) IN
                IF elapsed <= 0 THEN out = 0 ELSE out = elapsed \div 60

\* the departures just returned, each with the upstream message list of its entry
\* (the entries of a board carry distinct journey ids)
ReturnedWithUpstream ==
    IF inp.fn = "_map_departure" /\ out.ok
    THEN {[d |-> out.val, up |-> DictGet(inp.raw, "meldungen", <<>>)]}
    ELSE IF inp.fn = "get_departures" /\ out.ok
    THEN {[d |-> out.val[i], up |-> DictGet(inp.entries[j], "meldungen", <<>>)] :
            <<i, j>> \in {ij \in (1..Len(out.val)) \X (1..Len(inp.entries)) :
                             inp.entries[ij[2]].journeyId = out.val[ij[1]].journey_id}}
    ELSE {}

\* C12: cancellation flag. Every departure returned has is_cancelled true iff one
\* of its own messages has type "HALT_AUSFALL" (false for an empty or absent upstream
\* list), and its messages are the upstream messages, same length and order.
C12_CancellationFlag ==
    /\ (inp.fn = "get_departures" /\ out.ok) =>
           \A i \in 1..Len(out.val) :
               \E r \in ReturnedWithUpstream : r.d = out.val[i]
    /\ \A r \in ReturnedWithUpstream :
           /\ r.d.is_cancelled =
                  (\E i \in 1..Len(r.d.messages) : r.d.messages[i].type = "HALT_AUSFALL")
           /\ Len(r.up) = 0 => ~r.d.is_cancelled
           /\ Len(r.d.messages) = Len(r.up)
           /\ \A i \in 1..Len(r.up) :
                  /\ ("type" \in DOMAIN r.up[i]) => r.d.messages[i].type = r.up[i].type
                  /\ ("text" \in DOMAIN r.up[i]) => r.d.messages[i].text = r.up[i].text

\* C12 witness: a returned departure is cancelled by its second message, the first
\* being a note of another type.
C12_Witness ==
    /\ inp.fn = "get_departures"
    /\ \E r \in ReturnedWithUpstream :
           /\ r.up = <<[type |-> "HIM", text |-> "Bauarbeiten"],
                       [type |-> "HALT_AUSFALL", text |-> "Halt entfaellt"]>>
           /\ r.d.is_cancelled
           /\ r.d.messages[1].type = "HIM" /\ r.d.messages[2].type = "HALT_AUSFALL"

\* a tool has just been called
ToolCalled == inp.fn \in {"tool_get_departures", "tool_get_journey"}

\* C13: the tool boundary never raises. For every input and every failure of the
\* service, the get_departures and get_journey tools return a list of exactly one
\* embedded resource whose JSON text is the success payload or an object with an
\* `error` message.
C13_ToolNeverRaises ==
    ToolCalled =>
        /\ out.kind = "ok"
        /\ Len(out.value) = 1
        /\ out.value[1].type = "resource"
        /\ out.value[1].resource.mimeType = "application/json"
        /\ LET t == out.value[1].resource.text
               succeeded == inp.called /\ inp.service.kind = "ok"
           IN  /\ ~succeeded => DOMAIN t = {"error"}
               /\ succeeded =>
                      /\ "error" \notin DOMAIN t
                      /\ IF inp.fn = "tool_get_journey" THEN t = inp.service.value
                         ELSE /\ t.station = inp.service.value.station
                              /\ t.count = Len(inp.service.value.departures)
                              /\ Len(t.departures) = t.count

\* C13 witness: the service failed with an exception of a class the boundary does
\* not name, and the get_departures tool returned one resource with an error object.
C13_Witness ==
    /\ inp.fn = "tool_get_departures" /\ inp.called
    /\ inp.service.kind = "error" /\ inp.service.exc = OtherException
    /\ out.kind = "ok" /\ Len(out.value) = 1
    /\ "error" \in DOMAIN out.value[1].resource.text

\* the service was called and raised
ServiceFailed == ToolCalled /\ inp.called /\ inp.service.kind = "error"

\* the message the boundary is to give for an ApiError of a status for which it has
\* a generic text, and the exception's own message for the other statuses
ApiErrorMessage(e, generic) ==
    IF e.status_code \in DOMAIN generic THEN generic[e.status_code] ELSE e.message

TryAgainLater(status_code) ==
    "Upstream API error (" \o ToString(status_code) \o "). Please try again later."

\* the message the boundary is to give for the failure e
ClaimedMessage(e, generic) ==
    CASE e.kind = "ApiError" ->
             IF e.status_code >= 500 THEN TryAgainLater(e.status_code)
             ELSE ApiErrorMessage(e, generic)
      [] e.kind \in {"StationNotFoundError", "ValueError"} -> e.message
      [] e.kind = "TimeoutException" -> "Request timed out. Please try again."
      [] OTHER -> "An unexpected error occurred."

\* C14 as stated: ApiError 404 gives the generic not-found message, a status of 500
\* or above the try-again-later message with the code, every other status the
\* exception's own message; StationNotFoundError and ValueError messages pass
\* through, a timeout gives the timed-out message, anything else the generic
\* unexpected-error message.
C14_MessageMappingAsStated ==
    ServiceFailed =>
        out.value[1].resource.text.error
            = ClaimedMessage(inp.service.exc, (404 :> "Resource not found."))

\* C14: error-message mapping at the tool boundary, with the status 400 among the
\* statuses that have a generic message: ApiError 400 gives the generic
\* invalid-request message, 404 the generic not-found message, 500 or above the
\* try-again-later message with the code, every other status the exception's own
\* message; the other kinds as stated, the unexpected-error message never carrying
\* the exception's detail.
C14_MessageMapping ==
    ServiceFailed =>
        LET e == inp.service.exc
            msg == out.value[1].resource.text.error
        IN  /\ msg = ClaimedMessage(e, (400 :> "Invalid request. Please check your inputs.")
                                         @@ (404 :> "Resource not found."))
            /\ e = OtherException => msg # e.message

\* C14 witness: the service failed with ApiError 503 and the tool answered with the
\* try-again-later message naming 503.
C14_Witness ==
    /\ ServiceFailed
    /\ inp.service.exc.kind = "ApiError" /\ inp.service.exc.status_code = 503
    /\ out.value[1].resource.text.error
           = "Upstream API error (503). Please try again later."

\* the freshness window of each endpoint, in seconds
Window(ep) ==
    CASE ep = "orte" -> 300
      [] ep = "abfahrten" -> 90
      [] OTHER -> 30

\* C15: per-endpoint freshness windows. A successful searchStations call leaves an
\* entry that expires 300 s after it was written, getDepartures one of 90 s and
\* getJourney one of 30 s, whatever the cache's default TTL; a call that finds the
\* entry of its key expired issues a fresh upstream request and, when it succeeds,
\* rewrites the entry.
C15_FreshnessWindows ==
    /\ [][\A p \in Procs :
            (calls[p].pc = "wait" /\ calls'[p] # calls[p]) =>
                LET n == Len(calls[p].gw)
                    g == (IF calls'[p].pc = "idle" THEN last' ELSE calls'[p]).gw[n]
                IN  (g.state = "ok") =>
                        /\ g.wrote
                        /\ g.key \in DOMAIN store'
                        /\ store'[g.key].data = g.ret
                        /\ store'[g.key].expires_at = now + Window(g.ep)]_vars
    /\ [](\A g \in AllGw : (g.held # None /\ ~g.live) => g.sent = 1)

\* C15 witness: a station search made more than 300 s after the first one found the
\* entry expired, sent a request and wrote the entry again.
C15_Witness ==
    /\ last.pc = "done" /\ Len(last.gw) >= 1
    /\ last.gw[1].ep = "orte"
    /\ last.gw[1].held # None /\ ~last.gw[1].live
    /\ last.gw[1].sent = 1 /\ last.gw[1].wrote
    /\ now > 300
    /\ last.gw[1].key \in DOMAIN store
    /\ store[last.gw[1].key].expires_at = now + 300

\* C16: overwrite replaces value and expiry. After set(k, v1, T1) followed by
\* set(k, v2, T2) at time t, get(k) returns v2 at every time before t + T2 and
\* absent at every time after t + T2, whatever T1 was.
C16_OverwriteReplaces ==
    (lastOp.op = "get" /\ lastOp.key \in DOMAIN overwritten) =>
        LET second == lastSet[lastOp.key] IN
        /\ (lastOp.at < second.at + second.T) => (lastOp.ret = second.data)
        /\ (lastOp.at > second.at + second.T) => (lastOp.ret = None)

\* C16 witness: the first entry held another value and would have lived longer than
\* the second; a get after the second's expiry and before the first's found nothing.
C16_Witness ==
    /\ lastOp.op = "get" /\ lastOp.key \in DOMAIN overwritten
    /\ LET second == lastSet[lastOp.key]
           first == overwritten[lastOp.key]
       IN  /\ first.data # second.data
           /\ first.at + first.T > second.at + second.T
           /\ lastOp.at > second.at + second.T
           /\ lastOp.at < first.at + first.T
           /\ lastOp.ret = None

\* the raw location that the selection rule picks from a search result
PickedRaw(results) ==
    LET st == {i \in 1..Len(results) : IsSt(results[i])} IN
    IF st = {} THEN results[1] ELSE results[CHOOSE i \in st : \A j \in st : i <= j]

\* C17: location identifier invariant. Every Location returned by resolve_station has
\* an eva that is a non-negative integer: that of the upstream evaNumber field when
\* present, otherwise of the extId field, otherwise 0.
C17_EvaInvariant ==
    (inp.fn = "resolve_station" /\ out.ok) =>
        LET raw == PickedRaw(inp.results) IN
        /\ out.val.eva >= 0
        /\ out.val.eva = (IF "evaNumber" \in DOMAIN raw THEN raw.evaNumber.val
                          ELSE IF "extId" \in DOMAIN raw THEN raw.extId.val
                          ELSE 0)

\* C18: timestamp parsing. parse(s) returns a Europe/Berlin-zoned value that denotes
\* the same instant as s when s carries an offset (a numeric one or the designator Z)
\* and has the wall-clock fields of s when s is naive; for an s that is empty, blank
\* or no ISO-8601 date-time it fails with a parse error.
C18_TimestampParsing ==
    (inp.fn = "parse_bahn_datetime") =>
        LET s == inp.s IN
        CASE s.text = "offset" ->
                 /\ out.ok
                 /\ Instant(out.val) = s.wall - s.off
                 /\ out.val.off = BerlinOffsetAt(s.wall - s.off)
          [] s.text = "zulu" ->
                 /\ out.ok
                 /\ Instant(out.val) = s.wall
                 /\ out.val.off = BerlinOffsetAt(s.wall)
          [] s.text = "naive" ->
                 /\ out.ok
                 /\ out.val.wall = s.wall
                 /\ out.val.off \in {BerlinOffset, BerlinSummerOffset}
          [] OTHER -> ~out.ok

\* C19: effective-departure invariant. Every departure returned has
\* effective_departure equal to rt_departure when that is present and to
\* scheduled_departure otherwise; so delay_minutes > 0 implies that rt_departure is
\* present and that effective_departure is a later instant than scheduled_departure.
C19_EffectiveDeparture ==
    \A r \in ReturnedWithUpstream :
        /\ r.d.effective_departure
               = (IF r.d.rt_departure # None THEN r.d.rt_departure
                  ELSE r.d.scheduled_departure)
        /\ (r.d.delay_minutes > 0) =>
               /\ r.d.rt_departure # None
               /\ Instant(r.d.effective_departure) > Instant(r.d.scheduled_departure)

\* C20: no single-flight. A gateway call that finds no live entry for its key sends
\* an upstream request whether or not another request for the same key is in
\* flight, so two concurrent calls can both miss and both send; and every call that
\* completes writes its payload over whatever the cache holds for the key, so after
\* both the cache holds the payload of the one that finished last.
C20_NoSingleFlight ==
    /\ [](\A g \in AllGw : ~g.live => g.sent = 1)
    /\ [](\A p \in Procs, q \in Procs :
             (p # q /\ calls[p].pc = "wait" /\ calls[q].pc = "wait"
                 /\ calls[p].gw[Len(calls[p].gw)].key = calls[q].gw[Len(calls[q].gw)].key)
             => (calls[p].gw[Len(calls[p].gw)].sent = 1
                    /\ calls[q].gw[Len(calls[q].gw)].sent = 1))
    /\ [][\A p \in Procs :
            (calls[p].pc = "wait" /\ calls'[p] # calls[p]) =>
                LET n == Len(calls[p].gw)
                    done == (IF calls'[p].pc = "idle" THEN last' ELSE calls'[p]).gw[n]
                IN  (done.state = "ok") => (store'[done.key].data = done.ret)]_vars

\* C20 witness: two station searches for one key both found nothing cached and both
\* sent a request; the first response was cached at time 0, the second 60 s later,
\* and the cache holds the second payload, which differs from the first.
C20_Witness ==
    /\ last.pc = "done" /\ Len(last.gw) = 1
    /\ calls["h2"].pc = "wait" /\ Len(calls["h2"].gw) = 2
    /\ LET a == calls["h2"].gw[1]
           b == last.gw[1]
       IN  /\ a.key = b.key
           /\ a.held = None /\ b.held = None
           /\ a.sent = 1 /\ b.sent = 1
           /\ a.wrote /\ b.wrote
           /\ a.ret # b.ret
           /\ firstOk[a.key].at = 0
           /\ store[a.key].expires_at = 60 + 300
           /\ store[a.key].data = b.ret

GwPlaces ==
    {<<p, i>> : p \in Procs, i \in 1..2} \cup {<<"last", i>> : i \in 1..2}

GwAt(pl) ==
    LET c == IF pl[1] = "last" THEN last ELSE calls[pl[1]]
    IN  IF pl[2] <= Len(c.gw) THEN c.gw[pl[2]] ELSE None

\* C22: user-agent round-robin. The process-wide counter starts at 0 and each header
\* generation performs one read-and-increment, so the n-th header generation in the
\* process (n counted from 0 across all operations and all concurrent invocations)
\* uses pool entry n mod 3, and no two header generations observe the same counter
\* value.
C22_UserAgentRoundRobin ==
    /\ [](ncalls = 0 => ua_index = 0)
    /\ [][/\ \A p \in Procs :
                (calls'[p] # calls[p] /\ calls'[p].pc = "wait") =>
                    LET g == calls'[p].gw[Len(calls'[p].gw)] IN
                    /\ g.sent = 1
                    /\ g.idx = ua_index
                    /\ g.ua = ua_index % 3
                    /\ ua_index' = ua_index + 1
          /\ (\A p \in Procs : calls'[p] = calls[p] \/ calls'[p].pc # "wait")
                => ua_index' = ua_index]_vars
    /\ [](\A a \in GwPlaces, b \in GwPlaces :
             (GwAt(a) # None /\ GwAt(b) # None /\ GwAt(a).sent >= 1 /\ GwAt(b).sent >= 1
                 /\ GwAt(a).idx = GwAt(b).idx) => a = b)

\* C22 witness: two get_departures invocations in flight together have made four
\* header sets; the fourth read the counter at 3 and used pool entry 0 again.
C22_Witness ==
    /\ ua_index = 4
    /\ \E p \in Procs :
           /\ calls[p].pc = "wait" /\ Len(calls[p].gw) = 2
           /\ calls[p].gw[1].idx = 1 /\ calls[p].gw[1].ua = 1
           /\ calls[p].gw[2].idx = 3 /\ calls[p].gw[2].ua = 0
    /\ \E g \in AllGw : g.idx = 0 /\ g.ua = 0
    /\ \E g \in AllGw : g.idx = 2 /\ g.ua = 2

\* a raw board entry whose scheduled-time field is missing, empty or unparsable
BadSched(e) == "zeit" \notin DOMAIN e \/ e.zeit.text \in {"empty", "blank", "garbage"}

\* C23: scheduled-time parse failure is fatal to the fetch. If any entry of the board
\* payload has a missing, empty or unparsable scheduled-time field, get_departures
\* fails with a parse error and returns no departures at all (never a partial list),
\* whatever the other entries, the destination filter and max_results are.
C23_SchedParseFatal ==
    (inp.fn = "get_departures" /\ \E i \in 1..Len(inp.entries) : BadSched(inp.entries[i]))
        => out = ValueError

\* C23 witness: the entry without a scheduled time comes third, after two entries
\* that map; the filter keeps the first entry only and max_results is 1.
C23_Witness ==
    /\ inp.fn = "get_departures" /\ Len(inp.entries) = 3
    /\ inp.entries[1].journeyId = "j2" /\ inp.entries[2].journeyId = "j4"
    /\ "zeit" \notin DOMAIN inp.entries[3]
    /\ inp.destination_filter = Some(<<"B">>) /\ inp.max_results = 1
    /\ out = ValueError

\* C24: real-time parse failure degrades gracefully. An entry whose real-time field
\* is empty, absent or unparsable is mapped with rt_departure absent, delay_minutes 0
\* and effective_departure equal to scheduled_departure; the fetch still succeeds
\* and the mapping of every other entry is unaffected.
C24_RtParseDegrades ==
    (inp.fn = "_map_departure"
        /\ "zeit" \in DOMAIN inp.raw /\ inp.raw.zeit.text = "naive"
        /\ ("ezZeit" \notin DOMAIN inp.raw
               \/ inp.raw.ezZeit.text \in {"empty", "blank", "garbage", "extreme"}))
        => /\ out.ok
           /\ out.val.rt_departure = None
           /\ out.val.delay_minutes = 0
           /\ out.val.effective_departure = out.val.scheduled_departure

\* a str of blanks only, the empty one included
BlankStr(chars) == \A i \in 1..Len(chars) : chars[i] = " "

\* a mode code that spells ICE, in either case
SpellsIce(code) ==
    /\ Len(code) = 3
    /\ code[1] \in {"i", "I"} /\ code[2] \in {"c", "C"} /\ code[3] \in {"e", "E"}

\* tool arguments that fail validation: a blank station name, a board time that is
\* not YYYY-MM-DDTHH:MM:SS, a mode code that is no TransportMode; a blank journey id
Rejected(tool) ==
    IF tool.name = "get_departures"
    THEN \/ BlankStr(tool.station_name)
         \/ tool.datetime_str # NoArg /\ tool.datetime_str[1].text # "naive"
         \/ /\ tool.transport_modes # NoArg
            /\ \E i \in 1..Len(tool.transport_modes[1]) :
                   ~SpellsIce(tool.transport_modes[1][i])
    ELSE BlankStr(tool.journey_id)

\* C25: validation precedes any network call. When the get_departures tool is called
\* with an empty or blank station name, a board time not in the accepted format, or
\* an unknown mode code (or get_journey with a blank journey id), it returns an error
\* payload without invoking the service, so no upstream request is issued and the
\* cache contents and the user-agent counter are unchanged.
C25_ValidationFirst ==
    /\ []((last.pc = "done" /\ Rejected(last.tool)) =>
             /\ last.gw = <<>>
             /\ last.result.kind = "ok"
             /\ "error" \in DOMAIN last.result.value[1].resource.text)
    /\ [][(ncalls' = ncalls + 1 /\ calls' = calls /\ Rejected(last'.tool)) =>
             (store' = store /\ ua_index' = ua_index)]_vars

\* C25 witness: while a get_departures call waits for its board, with the station
\* search cached and two header sets made, a call with the modes ["ICE", "X"] for a
\* good station name and board time was turned down.
C25_Witness ==
    /\ last.pc = "done" /\ last.tool.name = "get_departures"
    /\ last.tool.station_name = <<" ", "K", " ">>
    /\ last.tool.datetime_str[1].text = "naive"
    /\ last.tool.transport_modes = Some(<< <<"I", "C", "E">>, <<"X">> >>)
    /\ last.gw = <<>>
    /\ last.result.value[1].resource.text.error = "Unknown transport mode: X"
    /\ calls["h1"].pc = "wait" /\ Len(calls["h1"].gw) = 2
    /\ store # EmptyStore
    /\ ua_index = 2

\* C26: mode-order independence of the board cache key. The key depends only on the
\* set of requested mode codes, so two get_departures calls with the same eva, hafas
\* id, date and time whose mode lists contain the same set of codes (in any order,
\* with or without repeated codes) use the same cache entry, and the second one
\* within 90 s issues no upstream request.
C26_ModeSetKey ==
    (inp.fn = "cache_key" /\ CodesOf(inp.modes_a) = CodesOf(inp.modes_b))
        => /\ out.key_a = out.key_b
           /\ out.cached = BoardFound

\* the gateway calls that handler p makes in a step, and those of an invocation that
\* begins and ends in the step
StepGw(p) ==
    LET after == IF calls'[p].pc = "idle" THEN last' ELSE calls'[p]
    IN  IF calls'[p] = calls[p] THEN {}
        ELSE {<<p, i, after.gw[i]>> : i \in (Len(calls[p].gw) + 1)..Len(after.gw)}

StepGwAll ==
    IF calls' = calls /\ ncalls' # ncalls
    THEN {<<"last", i, last'.gw[i]>> : i \in 1..Len(last'.gw)}
    ELSE UNION {StepGw(p) : p \in Procs}

\* C27: cache hits do not touch the header state. A gateway call served from the
\* cache generates no header set, so it leaves the user-agent counter and the cache
\* contents unchanged; the counter therefore advances exactly once per upstream
\* request issued, not once per gateway call.
C27_HitsLeaveHeaders ==
    /\ [](\A g \in AllGw :
             g.live => (g.sent = 0 /\ g.idx = -1 /\ g.ua = -1 /\ g.ret = g.held))
    /\ [][/\ ua_index' = ua_index + Cardinality({n \in StepGwAll : n[3].sent = 1})
          /\ (/\ StepGwAll # {}
              /\ \A n \in StepGwAll : n[3].live
              /\ \A p \in Procs : calls[p].pc = "wait" => calls'[p] = calls[p])
                 => store' = store]_vars

\* C27 witness: a get_departures invocation found the station search in the cache
\* and the board not; of the four gateway calls made so far three sent a request,
\* and the counter stands at 3.
C27_Witness ==
    /\ ncalls = 2 /\ ua_index = 3
    /\ \E p \in Procs :
           /\ calls[p].pc = "wait" /\ Len(calls[p].gw) = 2
           /\ calls[p].gw[1].sent = 0 /\ calls[p].gw[1].idx = -1
           /\ calls[p].gw[1].ret = SearchFound
           /\ calls[p].gw[2].sent = 1 /\ calls[p].gw[2].idx = 2
    /\ last.op = "get_departures" /\ Len(last.gw) = 2
    /\ last.gw[1].sent = 1 /\ last.gw[2].sent = 1

BoardCallAfterStep == IF calls'["h1"].pc = "idle" THEN last' ELSE calls'["h1"]

\* a step in which the handler consults the cache for the board
BoardLookupStep ==
    /\ \/ ncalls' = ncalls + 1
       \/ calls["h1"].pc = "wait" /\ Len(calls["h1"].gw) = 1 /\ calls' # calls
    /\ Len(BoardCallAfterStep.gw) = 2

C29_EmptySearchCachedAsStated ==
    (last.pc = "done" /\ last.after # NoArg) =>
        /\ last.gw[1].sent = 0
        /\ last.result = ErrResult(StationNotFoundError(
                                       "Station not found: " \o last.args.station_name))

\* a step of a handler whose search request for key k was in flight
InFlightStep(k) ==
    \E p \in Procs : /\ calls[p].pc = "wait" /\ calls[p].gw[1].key = k
                     /\ calls'[p] # calls[p]

\* C29: empty search results are cached like any other payload. The step in which a
\* search request is answered with an empty list leaves the list under the search's
\* key for 300 s; until then the entry is changed only by the answer to a request
\* for the same name that was in flight; and every resolve_station call that looks
\* the name up while the entry is there and not expired fails with
\* StationNotFoundError without issuing an upstream request.
C29_EmptySearchCached ==
    /\ [][(last' # last /\ last'.gw[1].sent = 1 /\ last'.gw[1].state = "ok"
              /\ last'.gw[1].ret = EmptySearch) =>
             /\ last'.gw[1].key \in DOMAIN store'
             /\ store'[last'.gw[1].key]
                    = [data |-> EmptySearch, expires_at |-> now + 300]
             /\ last'.result = ErrResult(StationNotFoundError(
                                    "Station not found: " \o last'.args.station_name))]_vars
    /\ [][\A k \in DOMAIN store :
             (store[k].data = EmptySearch /\ now <= store[k].expires_at) =>
                 \/ k \in DOMAIN store' /\ store'[k] = store[k]
                 \/ InFlightStep(k)]_vars
    /\ [](\A p \in Procs :
             LET c == IF calls[p].pc = "idle" THEN last ELSE calls[p] IN
             (c.op = "resolve_station" /\ c.gw[1].live /\ c.gw[1].held = EmptySearch) =>
                 /\ c.pc = "done"
                 /\ c.gw[1].sent = 0
                 /\ c.result = ErrResult(StationNotFoundError(
                                    "Station not found: " \o c.args.station_name)))

\* C29 witness: 300 s after a search request was answered with an empty list, the
\* name was resolved again; the call sent nothing and raised StationNotFoundError.
C29_Witness ==
    /\ last.pc = "done" /\ last.after = Some(0) /\ now = 300
    /\ last.gw[1].live /\ last.gw[1].held = EmptySearch
    /\ last.gw[1].sent = 0
    /\ last.result.kind = "error" /\ last.result.exc.kind = "StationNotFoundError"
    /\ ua_index = 1

\* an operation on key k has just been carried out
JustDid(op, k) == lastOp'.op = op /\ lastOp'.key = k /\ lastOp'.at = now

\* C30: cache frame and lazy eviction. get(k), set(k, ..) and invalidate(k) leave
\* the value and expiry of every other key unchanged; the entry of a key k is removed
\* only by a get(k) that finds it expired, by invalidate(k) or by clear(), and
\* changed only by set(k, ..); so an expired entry stays in the store as it is while
\* time passes and other keys are used, until one of these operations reaches it.
C30_FrameAndLazyEviction ==
    [][/\ \A k \in CacheKeys :
              (JustDid("get", k) \/ JustDid("set", k) \/ JustDid("invalidate", k)) =>
                  \A j \in CacheKeys \ {k} :
                      /\ j \in DOMAIN store' <=> j \in DOMAIN store
                      /\ j \in DOMAIN store => store'[j] = store[j]
       /\ \A k \in DOMAIN store :
              /\ k \notin DOMAIN store' =>
                     \/ JustDid("get", k) /\ now > store[k].expires_at
                     \/ JustDid("invalidate", k)
                     \/ lastOp'.op = "clear"
              /\ (k \in DOMAIN store' /\ store'[k] # store[k]) => JustDid("set", k)
       /\ now' # now => store' = store]_vars

\* C30 witness: an entry that expired more than a tick ago is still in the store
\* just after a lookup of the other key.
C30_Witness ==
    /\ "k1" \in DOMAIN store /\ now > store["k1"].expires_at + 1
    /\ lastOp = [op |-> "get", key |-> "k2", at |-> now, ret |-> None]
    /\ "k2" \notin DOMAIN store
    /\ now = MaxClock

====
